---- MODULE Spec2Model ----
(***************************************************************************)
(* A model of the rust-chess move generator, make/unmake engine and perft  *)
(* driver.  A Bitboard (u64) is modelled as the set of its set bit         *)
(* indices, a subset of 0..63 (bit rank*8+file): union is |, intersection  *)
(* is &, symmetric difference is ^, and a shift moves every index and      *)
(* drops those that leave 0..63, exactly as << and >> on a u64 do.         *)
(* Option<T> is modelled as a set with at most one element: None is {}     *)
(* and Some(x) is {x}.                                                     *)
(***************************************************************************)
EXTENDS Integers, Sequences, FiniteSets, TLC

VARIABLES board, history, halfmove_clock, fullmove_number, pc, fen,
          depth, frames, result, build, parsed, input, output

vars == <<board, history, halfmove_clock, fullmove_number, pc, fen,
          depth, frames, result, build, parsed, input, output>>

----------------------------------------------------------------------------
(* Option<T> *)

None == {}

Some(x) == {x}

is_some(o) == o # {}

unwrap(o) == CHOOSE x \in o : TRUE

----------------------------------------------------------------------------
(* Bitboard primitives: bitboard/impl.rs *)

Squares == 0 .. 63

Shl(bb, n) == {s + n : s \in {t \in bb : t + n <= 63}}

Shr(bb, n) == {s - n : s \in {t \in bb : t - n >= 0}}

Xor(a, b) == (a \ b) \cup (b \ a)

\* a mask whose eight bytes all have the bits `bits` set (0x7f7f..., 0xfefe...)
EveryByte(bits) == {8 * r + b : r \in 0 .. 7, b \in bits}

\* a mask with one byte 0xFF, byte number `byte` counted from the low end
OneByte(byte) == {8 * byte + b : b \in 0 .. 7}

NOT_FILE_H == EveryByte({0, 1, 2, 3, 4, 5, 6})

NOT_FILE_A == EveryByte({1, 2, 3, 4, 5, 6, 7})

NOT_FILE_GH == EveryByte({0, 1, 2, 3, 4, 5})

NOT_FILE_AB == EveryByte({2, 3, 4, 5, 6, 7})

\* RANKS as the source writes it: entries 3 and 4 are the same byte, so
\* RANKS[7] is 0x00FF000000000000
RANKS == <<OneByte(0), OneByte(1), OneByte(2), OneByte(3), OneByte(3),
           OneByte(4), OneByte(5), OneByte(6)>>

RANK_1 == RANKS[1]

RANK_8 == RANKS[8]

PAWN_INITIAL == OneByte(1) \cup OneByte(6)

\* ranks 1 and 8
PAWN_PROMOTION_MASK == OneByte(0) \cup OneByte(7)

\* e1 | e8
KING_INITIAL == {4, 60}

north(bb) == Shl(bb, 8)

south(bb) == Shr(bb, 8)

east(bb) == Shl(bb \cap NOT_FILE_H, 1)

west(bb) == Shr(bb \cap NOT_FILE_A, 1)

north_east(bb) == Shl(bb \cap NOT_FILE_H, 9)

north_west(bb) == Shl(bb \cap NOT_FILE_A, 7)

south_east(bb) == Shr(bb \cap NOT_FILE_H, 7)

south_west(bb) == Shr(bb \cap NOT_FILE_A, 9)

no_no_ea(bb) == Shl(bb \cap NOT_FILE_H, 17)

no_ea_ea(bb) == Shl(bb \cap NOT_FILE_GH, 10)

so_ea_ea(bb) == Shr(bb \cap NOT_FILE_GH, 6)

so_so_ea(bb) == Shr(bb \cap NOT_FILE_H, 15)

no_no_we(bb) == Shl(bb \cap NOT_FILE_A, 15)

no_we_we(bb) == Shl(bb \cap NOT_FILE_AB, 6)

so_we_we(bb) == Shr(bb \cap NOT_FILE_AB, 10)

so_so_we(bb) == Shr(bb \cap NOT_FILE_A, 17)

shift(bb, direction) ==
  CASE direction = "North" -> north(bb)
    [] direction = "South" -> south(bb)
    [] direction = "East" -> east(bb)
    [] direction = "West" -> west(bb)
    [] direction = "NorthEast" -> north_east(bb)
    [] direction = "NorthWest" -> north_west(bb)
    [] direction = "SouthEast" -> south_east(bb)
    [] direction = "SouthWest" -> south_west(bb)
    [] direction = "NoNoEa" -> no_no_ea(bb)
    [] direction = "NoEaEa" -> no_ea_ea(bb)
    [] direction = "SoEaEa" -> so_ea_ea(bb)
    [] direction = "SoSoEa" -> so_so_ea(bb)
    [] direction = "NoNoWe" -> no_no_we(bb)
    [] direction = "NoWeWe" -> no_we_we(bb)
    [] direction = "SoWeWe" -> so_we_we(bb)
    [] direction = "SoSoWe" -> so_so_we(bb)

SLIDING_MOVES == <<"North", "South", "East", "West",
                   "NorthEast", "NorthWest", "SouthEast", "SouthWest">>

STRAIGHT_MOVES == SubSeq(SLIDING_MOVES, 1, 4)

DIAGONAL_MOVES == SubSeq(SLIDING_MOVES, 5, 8)

KNIGHT_MOVES == <<"NoNoEa", "NoEaEa", "SoEaEa", "SoSoEa",
                  "NoNoWe", "NoWeWe", "SoWeWe", "SoSoWe">>

\* White pawns capture to the north-east and north-west, Black pawns to the
\* south-east and south-west
pawn_captures(color) ==
  IF color = "White" THEN <<"NorthEast", "NorthWest">>
  ELSE <<"SouthEast", "SouthWest">>

\* lookup[j][i], j = 0, 1 (index j + 1 here), i = 0 .. 63
generate_pawn_lookup ==
  <<[i \in Squares |-> south_east({i}) \cup south_west({i})],
    [i \in Squares |-> north_east({i}) \cup north_west({i})]>>

generate_knight_lookup ==
  [i \in Squares |->
     no_no_ea({i}) \cup no_ea_ea({i}) \cup so_ea_ea({i}) \cup so_so_ea({i})
       \cup no_no_we({i}) \cup no_we_we({i}) \cup so_we_we({i})
       \cup so_so_we({i})]

\* OnePerColor::new(lookup[0], lookup[1]) and its get(color)
pawn_attacks_lookup(color) ==
  IF color = "White" THEN generate_pawn_lookup[1] ELSE generate_pawn_lookup[2]

knight_attacks_lookup == generate_knight_lookup

\* pawn_initial without the test against PAWN_INITIAL
pawn_initial_on_any_rank(bb, color_mask) == (bb \cap color_mask) = bb

pawn_initial(bb, color_mask) == (bb \cap PAWN_INITIAL \cap color_mask) = bb

\* *self ^= from; *self |= to
move_bit(bb, from, to) == Xor(bb, from) \cup to

clear_bit(bb, from) == bb \ from

set_bit(bb, bit) == bb \cup bit

is_empty(bb) == bb = {}

intersects(bb, other) == (bb \cap other) # {}

\* trailing_zeros: the index of the lowest set bit, 64 for the empty board
idx(bb) == IF bb = {} THEN 64 ELSE CHOOSE s \in bb : \A t \in bb : s <= t

count(bb) == Cardinality(bb)

from_square(file, rank) == {rank * 8 + file}

----------------------------------------------------------------------------
(* Algebraic square names: bitboard/display.rs.  A string is modelled as    *)
(* the sequence of its characters.                                          *)

Files == <<"a", "b", "c", "d", "e", "f", "g", "h">>

Ranks == <<"1", "2", "3", "4", "5", "6", "7", "8">>

IndexOf(seq, c) == CHOOSE i \in 1 .. Len(seq) : seq[i] = c

IsIn(seq, c) == \E i \in 1 .. Len(seq) : seq[i] = c

Lower == <<"a", "b", "c", "d", "e", "f", "g", "h", "i", "j", "k", "l", "m",
           "n", "o", "p", "q", "r", "s", "t", "u", "v", "w", "x", "y", "z">>

Digits == <<"0", "1", "2", "3", "4", "5", "6", "7", "8", "9">>

\* `c as u8` for the characters the model uses: b'a' = 97, b'0' = 48,
\* b'-' = 45
as_u8(c) ==
  IF IsIn(Lower, c) THEN 96 + IndexOf(Lower, c)
  ELSE IF IsIn(Digits, c) THEN 47 + IndexOf(Digits, c)
  ELSE 45

\* Bitboard(1 << (rank * 8 + file)) with file = c0 as u8 - b'a' and
\* rank = c1 as u8 - b'1', all in u8.  When a subtraction, the product, the
\* sum or the shift overflows, a build with overflow checks panics and a
\* build without them wraps (the shift amount modulo 64): err is "Overflow"
\* and val is the square the wrapping build returns in Ok
from_algebraic(algebraic) ==
  IF Len(algebraic) # 2
  THEN [ok |-> FALSE, err |-> "InvalidSingleSquare", val |-> {}]
  ELSE LET file == as_u8(algebraic[1]) - 97
           rank == as_u8(algebraic[2]) - 49
           product == (rank % 256) * 8
           sum == (product % 256) + (file % 256)
           amount == sum % 256
       IN  IF file < 0 \/ rank < 0 \/ product > 255 \/ sum > 255
              \/ amount > 63
           THEN [ok |-> FALSE, err |-> "Overflow", val |-> {amount % 64}]
           ELSE [ok |-> TRUE, err |-> "", val |-> {amount}]

Sq(name) == from_algebraic(name).val

----------------------------------------------------------------------------
(* Pieces, castling rights and moves.  The castling mask (u8) is the set   *)
(* of its set bit indices, like a Bitboard.                                *)

Not(color) == IF color = "White" THEN "Black" ELSE "White"

Kinds == <<"Pawn", "Knight", "Bishop", "Rook", "Queen", "King">>

Piece(color, kind, position) ==
  [color |-> color, kind |-> kind, position |-> position]

\* 0b1000
WHITE_KINGSIDE == {3}

\* 0b0100
WHITE_QUEENSIDE == {2}

\* 0b0010
BLACK_KINGSIDE == {1}

\* 0b0001
BLACK_QUEENSIDE == {0}

WHITE_BOTH == WHITE_KINGSIDE \cup WHITE_QUEENSIDE

BLACK_BOTH == BLACK_KINGSIDE \cup BLACK_QUEENSIDE

get_castling_right(castling, right) == intersects(castling, right)

set_castling_right(castling, right, value) ==
  IF value THEN castling \cup right ELSE castling \ right

Move_new(from, to, what) ==
  [what |-> what, from |-> from, to |-> to, capture |-> None,
   promotion |-> None, en_passant |-> None, castling_rights_change |-> {},
   castle_move |-> None]

with_promotion(m, promotion) == [m EXCEPT !.promotion = Some(promotion)]

with_promotions(m) ==
  <<with_promotion(m, "Queen"), with_promotion(m, "Rook"),
    with_promotion(m, "Bishop"), with_promotion(m, "Knight")>>

\* with_capture that leaves the move as it is
with_capture_dropped(m, capture) == m

with_capture(m, capture) == [m EXCEPT !.capture = Some(capture)]

with_en_passant(m, en_passant) == [m EXCEPT !.en_passant = Some(en_passant)]

with_castling_rights_loss(m, lost_rights) ==
  [m EXCEPT !.castling_rights_change = lost_rights]

with_castle_move(m, castle_move) == [m EXCEPT !.castle_move = Some(castle_move)]

----------------------------------------------------------------------------
(* Board state and its four mutators (spawn_piece, clear_piece,            *)
(* move_piece, unmove_piece), after section 4.5 of the design.             *)

KindField(kind) ==
  CASE kind = "Pawn" -> "pawns"
    [] kind = "Knight" -> "knights"
    [] kind = "Bishop" -> "bishops"
    [] kind = "Rook" -> "rooks"
    [] kind = "Queen" -> "queens"
    [] kind = "King" -> "kings"

ColorField(color) == IF color = "White" THEN "white" ELSE "black"

Board_DEFAULT ==
  [pawns |-> {}, knights |-> {}, bishops |-> {}, rooks |-> {}, queens |-> {},
   kings |-> {}, white |-> {}, black |-> {}, turn |-> "White",
   king_position |-> [white |-> None, black |-> None],
   en_passant |-> None, castling |-> {}]

get_color_mask(b, color) == IF color = "White" THEN b.white ELSE b.black

anything(b) == b.white \cup b.black

king_position(b, color) == unwrap(b.king_position[ColorField(color)])

get_piece(b, square) ==
  LET color == IF intersects(b.white, square) THEN "White" ELSE "Black"
  IN  IF intersects(b.pawns, square) THEN Some(Piece(color, "Pawn", square))
      ELSE IF intersects(b.knights, square)
      THEN Some(Piece(color, "Knight", square))
      ELSE IF intersects(b.bishops, square)
      THEN Some(Piece(color, "Bishop", square))
      ELSE IF intersects(b.rooks, square)
      THEN Some(Piece(color, "Rook", square))
      ELSE IF intersects(b.queens, square)
      THEN Some(Piece(color, "Queen", square))
      ELSE IF intersects(b.kings, square)
      THEN Some(Piece(color, "King", square))
      ELSE None

\* the pawn that an en-passant capture on en_passant_square removes: it
\* stands behind the target, south of it when the victim is Black
get_en_passant_victim(b, en_passant_square, color) ==
  Piece(color, "Pawn",
        IF color = "Black" THEN south(en_passant_square)
        ELSE north(en_passant_square))

spawn_piece(b, piece) ==
  [b EXCEPT ![KindField(piece.kind)] = set_bit(@, piece.position),
            ![ColorField(piece.color)] = set_bit(@, piece.position),
            !.king_position =
               IF piece.kind = "King"
               THEN [@ EXCEPT ![ColorField(piece.color)] =
                                 Some(idx(piece.position))]
               ELSE @]

clear_piece(b, piece) ==
  [b EXCEPT ![KindField(piece.kind)] = clear_bit(@, piece.position),
            ![ColorField(piece.color)] = clear_bit(@, piece.position),
            !.king_position =
               IF piece.kind = "King"
               THEN [@ EXCEPT ![ColorField(piece.color)] = None]
               ELSE @]

\* 1 en_passant := move.en_passant; 2 the castling rook slide and the rights
\* delta; 3 the captured piece leaves capture.position; 4 the mover's bit
\* goes from -> to on its kind and colour boards; 5 promotion
move_piece(b, mov) ==
  LET what == mov.what
      b1 == [b EXCEPT !.en_passant = mov.en_passant]
      b2 == IF is_some(mov.castle_move)
            THEN LET cm == unwrap(mov.castle_move)
                 IN  spawn_piece(
                       clear_piece(b1, Piece(what.color, "Rook", cm[1])),
                       Piece(what.color, "Rook", cm[2]))
            ELSE b1
      b2x == [b2 EXCEPT !.castling = Xor(@, mov.castling_rights_change)]
      b3 == IF is_some(mov.capture)
            THEN clear_piece(b2x, unwrap(mov.capture))
            ELSE b2x
      b4 == [b3 EXCEPT ![KindField(what.kind)] = move_bit(@, mov.from, mov.to),
                       ![ColorField(what.color)] = move_bit(@, mov.from, mov.to),
                       !.king_position =
                          IF what.kind = "King"
                          THEN [@ EXCEPT ![ColorField(what.color)] =
                                            Some(idx(mov.to))]
                          ELSE @]
  IN  IF is_some(mov.promotion)
      THEN [b4 EXCEPT ![KindField(what.kind)] = clear_bit(@, mov.to),
                      ![KindField(unwrap(mov.promotion))] = set_bit(@, mov.to)]
      ELSE b4

\* the inverse, in reverse order; prev is the history left after the pop:
\* the en-passant target that stood before the move is the one created by
\* the move made before it
unmove_piece(b, mov, prev) ==
  LET what == mov.what
      b1 == IF is_some(mov.promotion)
            THEN [b EXCEPT ![KindField(unwrap(mov.promotion))] =
                              clear_bit(@, mov.to),
                           ![KindField(what.kind)] = set_bit(@, mov.from),
                           ![ColorField(what.color)] =
                              move_bit(@, mov.to, mov.from)]
            ELSE [b EXCEPT ![KindField(what.kind)] =
                              move_bit(@, mov.to, mov.from),
                           ![ColorField(what.color)] =
                              move_bit(@, mov.to, mov.from),
                           !.king_position =
                              IF what.kind = "King"
                              THEN [@ EXCEPT ![ColorField(what.color)] =
                                                Some(idx(mov.from))]
                              ELSE @]
      b2 == IF is_some(mov.capture)
            THEN spawn_piece(b1, unwrap(mov.capture))
            ELSE b1
      b3 == IF is_some(mov.castle_move)
            THEN LET cm == unwrap(mov.castle_move)
                 IN  spawn_piece(
                       clear_piece(b2, Piece(what.color, "Rook", cm[2])),
                       Piece(what.color, "Rook", cm[1]))
            ELSE b2
      b3x == [b3 EXCEPT !.castling = Xor(@, mov.castling_rights_change)]
  IN  [b3x EXCEPT !.en_passant =
                     IF prev = <<>> THEN None ELSE prev[Len(prev)].en_passant]

flip_turn(b) == [b EXCEPT !.turn = Not(@)]

----------------------------------------------------------------------------
(* Game: game.rs.  A game value is the record of the fields of Game.       *)

\* make_move with the `self.turn = !self.turn` line left out
make_move_keeps_turn(g, mov) ==
  [board |-> move_piece(g.board, mov),
   history |-> Append(g.history, mov),
   fullmove_number |-> (g.fullmove_number + 1) % 65536,
   halfmove_clock |-> (g.halfmove_clock + 1) % 256]

\* Game::make_move
make_move(g, mov) ==
  [board |-> flip_turn(move_piece(g.board, mov)),
   history |-> Append(g.history, mov),
   fullmove_number |-> (g.fullmove_number + 1) % 65536,
   halfmove_clock |-> (g.halfmove_clock + 1) % 256]

\* unmake_move with the `self.board.unmove_piece(mov)` line left out
unmake_move_skips_unmove_piece(g, mov) ==
  LET b1 == flip_turn(g.board)
      b2 == IF is_some(mov.capture)
            THEN spawn_piece(b1, unwrap(mov.capture))
            ELSE b1
  IN  [board |-> b2,
       history |-> SubSeq(g.history, 1, Len(g.history) - 1),
       fullmove_number |-> (g.fullmove_number - 1) % 65536,
       halfmove_clock |-> (g.halfmove_clock - 1) % 256]

\* unmake_move with the `self.history.pop()` line left out
unmake_move_without_pop(g, mov) ==
  LET b1 == flip_turn(unmove_piece(g.board, mov,
                                   SubSeq(g.history, 1, Len(g.history) - 1)))
      b2 == IF is_some(mov.capture)
            THEN spawn_piece(b1, unwrap(mov.capture))
            ELSE b1
  IN  [board |-> b2,
       history |-> g.history,
       fullmove_number |-> (g.fullmove_number - 1) % 65536,
       halfmove_clock |-> (g.halfmove_clock - 1) % 256]

\* Game::unmake_move; the caller guards history # <<>> (the pop's expect)
unmake_move(g, mov) ==
  LET popped == SubSeq(g.history, 1, Len(g.history) - 1)
      b1 == flip_turn(unmove_piece(g.board, mov, popped))
      b2 == IF is_some(mov.capture)
            THEN spawn_piece(b1, unwrap(mov.capture))
            ELSE b1
  IN  [board |-> b2,
       history |-> popped,
       fullmove_number |-> (g.fullmove_number - 1) % 65536,
       halfmove_clock |-> (g.halfmove_clock - 1) % 256]

----------------------------------------------------------------------------
(* Move generation and attack queries: move_generation/impl.rs             *)

RECURSIVE ConcatAll(_)
\* moves.append(..) of each of a sequence of move vectors, in order
ConcatAll(ss) ==
  IF Len(ss) = 0 THEN <<>>
  ELSE IF Len(ss) = 1 THEN ss[1]
  ELSE LET half == Len(ss) \div 2
       IN  ConcatAll(SubSeq(ss, 1, half))
             \o ConcatAll(SubSeq(ss, half + 1, Len(ss)))

RECURSIVE gen_sliding_moves_recursive(_, _, _, _, _)
gen_sliding_moves_recursive(b, piece, origin_square, current_square, direction) ==
  LET color_mask == IF piece.color = "White" THEN b.white ELSE b.black
      opposite_color_mask == IF piece.color = "White" THEN b.black ELSE b.white
      to == shift(current_square, direction)
      new_move == Move_new(origin_square, to, piece)
  IN  IF ~is_empty(to) /\ ~intersects(to, color_mask)
      THEN IF intersects(to, opposite_color_mask)
           THEN <<with_capture(new_move, unwrap(get_piece(b, to)))>>
           ELSE <<new_move>>
                  \o gen_sliding_moves_recursive(b, piece, origin_square, to,
                                                 direction)
      ELSE <<>>

gen_sliding_moves(b, piece, origin_square, direction) ==
  gen_sliding_moves_recursive(b, piece, origin_square, origin_square, direction)

RECURSIVE slide_until_blocked(_, _, _, _)
slide_until_blocked(b, current_square, direction, color) ==
  LET color_mask == IF color = "White" THEN b.white ELSE b.black
      opposite_color_mask == IF color = "White" THEN b.black ELSE b.white
      to == shift(current_square, direction)
  IN  IF is_empty(to) THEN None
      ELSE IF intersects(to, opposite_color_mask) THEN get_piece(b, to)
      ELSE IF intersects(to, color_mask) THEN None
      ELSE slide_until_blocked(b, to, direction, color)

is_attacked(b, square, i, color) ==
  LET opposite_color_mask == get_color_mask(b, Not(color))
  IN  \/ (pawn_attacks_lookup(Not(color))[i] \cap b.pawns
            \cap opposite_color_mask) # {}
      \/ (knight_attacks_lookup[i] \cap (b.knights \cap opposite_color_mask))
           # {}
      \/ \E k \in 1 .. 4 :
           LET piece == slide_until_blocked(b, square, STRAIGHT_MOVES[k], color)
           IN  is_some(piece) /\ unwrap(piece).kind \in {"Queen", "Rook"}
      \/ \E k \in 1 .. 4 :
           LET piece == slide_until_blocked(b, square, DIAGONAL_MOVES[k], color)
           IN  is_some(piece) /\ unwrap(piece).kind \in {"Queen", "Bishop"}

\* is_check that finds no check
is_check_never(b, color) == FALSE

is_check(b, color) ==
  LET king_pos == king_position(b, color)
  IN  is_attacked(b, {king_pos}, king_pos, color)

\* the double push with its en-passant target left out of the move
pawn_double_push_without_target(b, origin_square, piece) ==
  LET to == IF b.turn = "White" THEN north(origin_square)
            ELSE south(origin_square)
      new_to == IF b.turn = "White" THEN north(north(origin_square))
                ELSE south(south(origin_square))
  IN  IF /\ pawn_initial(origin_square, get_color_mask(b, b.turn))
         /\ ~is_empty(new_to)
         /\ ~intersects(new_to, b.white \cup b.black)
      THEN <<Move_new(origin_square, new_to, piece)>>
      ELSE <<>>

\* the double push with the destination as its en-passant target
pawn_double_push_target_on_destination(b, origin_square, piece) ==
  LET new_to == IF b.turn = "White" THEN north(north(origin_square))
                ELSE south(south(origin_square))
  IN  IF /\ pawn_initial(origin_square, get_color_mask(b, b.turn))
         /\ ~is_empty(new_to)
         /\ ~intersects(new_to, b.white \cup b.black)
      THEN <<with_en_passant(Move_new(origin_square, new_to, piece), new_to)>>
      ELSE <<>>

\* Kind::Pawn branch, the double push: taken once the single push is free
pawn_double_push(b, origin_square, piece) ==
  LET to == IF b.turn = "White" THEN north(origin_square)
            ELSE south(origin_square)
      new_to == IF b.turn = "White" THEN north(north(origin_square))
                ELSE south(south(origin_square))
  IN  IF /\ pawn_initial(origin_square, get_color_mask(b, b.turn))
         /\ ~is_empty(new_to)
         /\ ~intersects(new_to, b.white \cup b.black)
      THEN <<with_en_passant(Move_new(origin_square, new_to, piece), to)>>
      ELSE <<>>

\* Kind::Pawn branch of gen_moves_from_piece
gen_pawn_moves(b, origin_square, piece) ==
  LET current_turn_mask == IF b.turn = "White" THEN b.white ELSE b.black
      opposite_color_mask == IF b.turn = "White" THEN b.black ELSE b.white
      to == IF b.turn = "White" THEN north(origin_square)
            ELSE south(origin_square)
      colors_mask == b.white \cup b.black
      new_move == Move_new(origin_square, to, piece)
      pushes ==
        IF ~is_empty(to) /\ ~intersects(to, colors_mask)
        THEN (IF intersects(to, PAWN_PROMOTION_MASK)
              THEN with_promotions(new_move)
              ELSE <<new_move>>)
             \o pawn_double_push(b, origin_square, piece)
        ELSE <<>>
      capture(direction) ==
        LET cto == shift(origin_square, direction)
        IN  IF is_empty(cto) THEN <<>>
            ELSE IF intersects(cto, opposite_color_mask)
            THEN LET cap == with_capture(Move_new(origin_square, cto, piece),
                                         unwrap(get_piece(b, cto)))
                 IN  IF intersects(cto, PAWN_PROMOTION_MASK)
                     THEN with_promotions(cap)
                     ELSE <<cap>>
            ELSE IF is_some(b.en_passant) /\ cto = unwrap(b.en_passant)
            THEN <<with_capture(
                     Move_new(origin_square, cto, piece),
                     get_en_passant_victim(b, unwrap(b.en_passant),
                                           Not(b.turn)))>>
            ELSE <<>>
  IN  pushes \o capture(pawn_captures(b.turn)[1])
             \o capture(pawn_captures(b.turn)[2])

\* Kind::Knight branch
gen_knight_moves(b, origin_square, piece) ==
  LET current_turn_mask == IF b.turn = "White" THEN b.white ELSE b.black
      opposite_color_mask == IF b.turn = "White" THEN b.black ELSE b.white
      one(direction) ==
        LET to == shift(origin_square, direction)
            new_move == Move_new(origin_square, to, piece)
        IN  IF ~is_empty(to) /\ ~intersects(to, current_turn_mask)
            THEN IF intersects(to, opposite_color_mask)
                 THEN <<with_capture(new_move, unwrap(get_piece(b, to)))>>
                 ELSE <<new_move>>
            ELSE <<>>
  IN  ConcatAll([k \in 1 .. 8 |-> one(KNIGHT_MOVES[k])])

\* Kind::Bishop, Kind::Rook and Kind::Queen branches
gen_slider_moves(b, origin_square, piece, directions) ==
  ConcatAll([k \in 1 .. Len(directions) |->
               gen_sliding_moves(b, piece, origin_square, directions[k])])

\* Kind::King branch: the eight steps, then the castling moves
gen_king_moves(b, origin_square, piece) ==
  LET current_turn_mask == IF b.turn = "White" THEN b.white ELSE b.black
      opposite_color_mask == IF b.turn = "White" THEN b.black ELSE b.white
      lost_rights == IF piece.color = "White" THEN WHITE_BOTH ELSE BLACK_BOTH
      step(direction) ==
        LET to == shift(origin_square, direction)
            new_move == with_castling_rights_loss(
                          Move_new(origin_square, to, piece), lost_rights)
        IN  IF ~is_empty(to) /\ ~intersects(to, current_turn_mask)
            THEN IF intersects(to, opposite_color_mask)
                 THEN <<with_capture(new_move, unwrap(get_piece(b, to)))>>
                 ELSE <<new_move>>
            ELSE <<>>
      steps == ConcatAll([k \in 1 .. 8 |-> step(SLIDING_MOVES[k])])
      king_destination == east(east(origin_square))
      rook_origin == east(king_destination)
      rook_destination == east(origin_square)
      short(right) ==
        IF /\ get_castling_right(b.castling, right)
           /\ ~intersects(rook_destination, anything(b))
           /\ ~intersects(king_destination, anything(b))
           /\ ~is_attacked(b, rook_destination, idx(rook_destination),
                           piece.color)
        THEN <<with_castle_move(
                 with_castling_rights_loss(
                   Move_new(origin_square, king_destination, piece),
                   lost_rights),
                 <<rook_origin, rook_destination>>)>>
        ELSE <<>>
      long(right, a, bsq, c, d) ==
        LET travel_squares == <<Sq(bsq), Sq(c), Sq(d)>>
            safe_squares == SubSeq(travel_squares, 2, 3)
            any_square_full ==
              \E k \in 1 .. 3 : intersects(travel_squares[k], anything(b))
            any_square_attacked ==
              \E k \in 1 .. 2 :
                is_attacked(b, safe_squares[k], idx(safe_squares[k]),
                            piece.color)
        IN  IF /\ get_castling_right(b.castling, right)
               /\ ~any_square_attacked
               /\ ~any_square_full
            THEN <<with_castle_move(
                     with_castling_rights_loss(
                       Move_new(origin_square, Sq(c), piece), lost_rights),
                     <<Sq(a), Sq(d)>>)>>
            ELSE <<>>
      castling ==
        IF intersects(origin_square, KING_INITIAL)
        THEN IF piece.color = "White"
             THEN short(WHITE_KINGSIDE)
                    \o long(WHITE_QUEENSIDE, <<"a", "1">>, <<"b", "1">>,
                            <<"c", "1">>, <<"d", "1">>)
             ELSE short(BLACK_KINGSIDE)
                    \o long(WHITE_QUEENSIDE, <<"a", "8">>, <<"b", "8">>,
                            <<"c", "8">>, <<"d", "8">>)
        ELSE <<>>
  IN  steps \o castling

gen_moves_from_piece(b, origin_square) ==
  LET p == get_piece(b, origin_square)
      piece == unwrap(p)
  IN  IF ~is_some(p) THEN <<>>
      ELSE CASE piece.kind = "Pawn" -> gen_pawn_moves(b, origin_square, piece)
             [] piece.kind = "Knight" ->
                  gen_knight_moves(b, origin_square, piece)
             [] piece.kind = "Bishop" ->
                  gen_slider_moves(b, origin_square, piece, DIAGONAL_MOVES)
             [] piece.kind = "Rook" ->
                  gen_slider_moves(b, origin_square, piece, STRAIGHT_MOVES)
             [] piece.kind = "Queen" ->
                  gen_slider_moves(b, origin_square, piece, SLIDING_MOVES)
             [] piece.kind = "King" -> gen_king_moves(b, origin_square, piece)

gen_moves(b) ==
  LET current_turn_mask == IF b.turn = "White" THEN b.white ELSE b.black
      moves == ConcatAll([i \in 1 .. 64 |->
                            IF intersects({i - 1}, current_turn_mask)
                            THEN gen_moves_from_piece(b, {i - 1})
                            ELSE <<>>])
  IN  SelectSeq(moves, LAMBDA m : ~is_empty(m.to))

----------------------------------------------------------------------------
(* FEN loading: Game::new in game.rs.  A FEN is given as its fields, each  *)
(* the sequence of its characters.                                         *)

WhiteChars == <<"P", "N", "B", "R", "Q", "K">>

BlackChars == <<"p", "n", "b", "r", "q", "k">>

\* one iteration of the loop over the piece-placement field; st holds the
\* board and the loop's rank and file
parse_piece_char(st, c) ==
  IF IsIn(WhiteChars, c) \/ IsIn(BlackChars, c)
  THEN IF st.rank * 8 + st.file > 63
       THEN [st EXCEPT !.tag = "Panic"]
       ELSE [st EXCEPT
               !.board = spawn_piece(st.board,
                 IF IsIn(WhiteChars, c)
                 THEN Piece("White", Kinds[IndexOf(WhiteChars, c)],
                            from_square(st.file, st.rank))
                 ELSE Piece("Black", Kinds[IndexOf(BlackChars, c)],
                            from_square(st.file, st.rank))),
               !.file = st.file + 1]
  ELSE IF IsIn(Ranks, c)
  THEN [st EXCEPT !.file = st.file + IndexOf(Ranks, c)]
  ELSE IF c = "/"
  THEN IF st.rank = 0 THEN [st EXCEPT !.tag = "Panic"]
       ELSE [st EXCEPT !.rank = st.rank - 1, !.file = 0]
  ELSE [st EXCEPT !.tag = "Err"]

RECURSIVE parse_pieces_from(_, _, _)
parse_pieces_from(st, chars, k) ==
  IF st.tag # "Ok" \/ k > Len(chars) THEN st
  ELSE parse_pieces_from(parse_piece_char(st, chars[k]), chars, k + 1)

\* the loop over the piece-placement field: rank starts at 7, file at 0
parse_pieces(b, chars, rank, file) ==
  parse_pieces_from([tag |-> "Ok", board |-> b, rank |-> rank, file |-> file],
                    chars, 1)

RECURSIVE parse_castling(_, _)
parse_castling(castling, chars) ==
  IF chars = <<>> THEN [tag |-> "Ok", castling |-> castling]
  ELSE LET c == Head(chars)
           next(right) ==
             parse_castling(set_castling_right(castling, right, TRUE),
                            Tail(chars))
       IN  CASE c = "K" -> next(WHITE_KINGSIDE)
             [] c = "Q" -> next(WHITE_QUEENSIDE)
             [] c = "k" -> next(BLACK_KINGSIDE)
             [] c = "q" -> next(BLACK_QUEENSIDE)
             [] c = "-" -> parse_castling(castling, Tail(chars))
             [] OTHER -> [tag |-> "Panic", castling |-> castling]

\* Game::new in a build with (debug) or without (release) overflow checks:
\* Ok(game), Err(FenError) or a panic
Game_new_built(bld, f) ==
  LET pieces == parse_pieces(Board_DEFAULT, f.pieces, 7, 0)
      rights == parse_castling({}, f.castling)
      ep == from_algebraic(f.en_passant)
      b == [pieces.board EXCEPT
              !.turn = IF f.turn = <<"w">> THEN "White" ELSE "Black",
              !.castling = rights.castling,
              !.en_passant = IF f.en_passant = <<"-">> THEN None
                             ELSE Some(ep.val)]
      game == [board |-> b, history |-> <<>>, halfmove_clock |-> 0,
               fullmove_number |-> 1]
  IN  IF pieces.tag = "Err"
      THEN [tag |-> "Err", err |-> "InvalidFen", game |-> game]
      ELSE IF pieces.tag = "Panic" \/ f.turn \notin {<<"w">>, <<"b">>}
              \/ rights.tag = "Panic"
      THEN [tag |-> "Panic", err |-> "", game |-> game]
      ELSE IF f.en_passant # <<"-">> /\ ep.err = "InvalidSingleSquare"
      THEN [tag |-> "Err", err |-> "InvalidEnPassant", game |-> game]
      ELSE IF f.en_passant # <<"-">> /\ ep.err = "Overflow" /\ bld = "debug"
      THEN [tag |-> "Panic", err |-> "", game |-> game]
      ELSE [tag |-> "Ok", err |-> "", game |-> game]

\* Game::new, overflow checks on
Game_new(f) == Game_new_built("debug", f)

----------------------------------------------------------------------------
(* The positions the model is started from.                                *)

\* rnbqkbnr/pppppppp/8/8/8/8/PPPPPPPP/RNBQKBNR w KQkq - 0 1
FEN_START ==
  [pieces |-> <<"r", "n", "b", "q", "k", "b", "n", "r", "/", "p", "p", "p",
  "p", "p", "p", "p", "p", "/", "8", "/", "8", "/", "8", "/", "8", "/", "P",
  "P", "P", "P", "P", "P", "P", "P", "/", "R", "N", "B", "Q", "K", "B", "N",
  "R">>, turn |-> <<"w">>, castling |-> <<"K", "Q", "k", "q">>, en_passant
  |-> <<"-">>]

\* r3k2r/p1ppqpb1/bn2pnp1/3PN3/1p2P3/2N2Q1p/PPPBBPPP/R3K2R w KQkq - 0 1
FEN_KIWIPETE ==
  [pieces |-> <<"r", "3", "k", "2", "r", "/", "p", "1", "p", "p", "q", "p",
  "b", "1", "/", "b", "n", "2", "p", "n", "p", "1", "/", "3", "P", "N", "3",
  "/", "1", "p", "2", "P", "3", "/", "2", "N", "2", "Q", "1", "p", "/", "P",
  "P", "P", "B", "B", "P", "P", "P", "/", "R", "3", "K", "2", "R">>, turn
  |-> <<"w">>, castling |-> <<"K", "Q", "k", "q">>, en_passant |-> <<"-">>]

\* 4k3/8/8/8/1p6/8/P7/4K3 w - - 0 1
FEN_DOUBLE_PUSH ==
  [pieces |-> <<"4", "k", "3", "/", "8", "/", "8", "/", "8", "/", "1", "p",
  "6", "/", "8", "/", "P", "7", "/", "4", "K", "3">>, turn |-> <<"w">>,
  castling |-> <<"-">>, en_passant |-> <<"-">>]

\* 4k3/8/8/8/Pp6/8/8/4K3 b - a3 0 1
FEN_EP_SET ==
  [pieces |-> <<"4", "k", "3", "/", "8", "/", "8", "/", "8", "/", "P", "p",
  "6", "/", "8", "/", "8", "/", "4", "K", "3">>, turn |-> <<"b">>, castling
  |-> <<"-">>, en_passant |-> <<"a", "3">>]

\* 4k3/8/8/8/8/6n1/8/4K2R b K - 0 1
FEN_ROOK_TAKEN ==
  [pieces |-> <<"4", "k", "3", "/", "8", "/", "8", "/", "8", "/", "8", "/",
  "6", "n", "1", "/", "8", "/", "4", "K", "2", "R">>, turn |-> <<"b">>,
  castling |-> <<"K">>, en_passant |-> <<"-">>]

\* 4k2r/8/8/8/8/8/8/R3K3 w Qk - 0 1
FEN_CASTLES ==
  [pieces |-> <<"4", "k", "2", "r", "/", "8", "/", "8", "/", "8", "/", "8",
  "/", "8", "/", "8", "/", "R", "3", "K", "3">>, turn |-> <<"w">>, castling
  |-> <<"Q", "k">>, en_passant |-> <<"-">>]

\* 1n6/P7/8/8/8/8/8/k6K w - - 0 1
FEN_PROMOTION ==
  [pieces |-> <<"1", "n", "6", "/", "P", "7", "/", "8", "/", "8", "/", "8",
  "/", "8", "/", "8", "/", "k", "6", "K">>, turn |-> <<"w">>, castling |->
  <<"-">>, en_passant |-> <<"-">>]

\* 4k3/8/8/8/8/8/4r3/4K3 w - - 0 1
FEN_CHECK ==
  [pieces |-> <<"4", "k", "3", "/", "8", "/", "8", "/", "8", "/", "8", "/",
  "8", "/", "4", "r", "3", "/", "4", "K", "3">>, turn |-> <<"w">>, castling
  |-> <<"-">>, en_passant |-> <<"-">>]

\* 8/8/8/8/8/8/P7/K1k5 w - - 0 1
FEN_KINGS_NEAR ==
  [pieces |-> <<"8", "/", "8", "/", "8", "/", "8", "/", "8", "/", "8", "/",
  "P", "7", "/", "K", "1", "k", "5">>, turn |-> <<"w">>, castling |->
  <<"-">>, en_passant |-> <<"-">>]

\* 4k3/p7/8/1P6/8/8/8/4K3 b - - 0 1: Black can push a7-a5 past the b5 pawn
FEN_BLACK_PUSH ==
  [pieces |-> <<"4", "k", "3", "/", "p", "7", "/", "8", "/", "1", "P", "6",
  "/", "8", "/", "8", "/", "8", "/", "4", "K", "3">>, turn |-> <<"b">>,
  castling |-> <<"-">>, en_passant |-> <<"-">>]

\* 4k3/8/8/8/8/8/8/R3K3 b Q - 0 1: only White holds a right
FEN_BLACK_LONG ==
  [pieces |-> <<"4", "k", "3", "/", "8", "/", "8", "/", "8", "/", "8", "/",
  "8", "/", "8", "/", "R", "3", "K", "3">>, turn |-> <<"b">>, castling |->
  <<"Q">>, en_passant |-> <<"-">>]

\* r3k2r/8/8/8/8/8/8/R3K2R w KQkq - 0 1
FEN_BOTH_CASTLES ==
  [pieces |-> <<"r", "3", "k", "2", "r", "/", "8", "/", "8", "/", "8", "/",
  "8", "/", "8", "/", "8", "/", "R", "3", "K", "2", "R">>, turn |-> <<"w">>,
  castling |-> <<"K", "Q", "k", "q">>, en_passant |-> <<"-">>]

\* 8/P7/8/8/8/8/8/k6K w - - 0 1
FEN_PAWN_A7 ==
  [pieces |-> <<"8", "/", "P", "7", "/", "8", "/", "8", "/", "8", "/", "8",
  "/", "8", "/", "k", "6", "K">>, turn |-> <<"w">>, castling |-> <<"-">>,
  en_passant |-> <<"-">>]

FENS == <<FEN_START, FEN_KIWIPETE, FEN_DOUBLE_PUSH, FEN_EP_SET,
          FEN_ROOK_TAKEN, FEN_CASTLES, FEN_PROMOTION, FEN_CHECK,
          FEN_KINGS_NEAR, FEN_BLACK_PUSH, FEN_BLACK_LONG, FEN_BOTH_CASTLES,
          FEN_PAWN_A7>>

\* the positions of the make/unmake walk (indices into FENS)
WalkFens == {1} \cup (3 .. Len(FENS))

\* the positions perft is counted from
PerftFens == 1 .. 4

PerftDepths == 0 .. 3

\* the deepest ply the make/unmake walk goes to
MaxDepth == 3

----------------------------------------------------------------------------
(* The make/unmake walk: the steps perft takes (perft.rs), a generated     *)
(* move at a time, in any order: make_move, then the legality test         *)
(* is_check(!turn), then either the recursion or unmake_move.              *)

game == [board |-> board, history |-> history,
         halfmove_clock |-> halfmove_clock,
         fullmove_number |-> fullmove_number]

SetGame(g) ==
  \E v \in {g} :
    /\ board' = v.board
    /\ history' = v.history
    /\ halfmove_clock' = v.halfmove_clock
    /\ fullmove_number' = v.fullmove_number

Last(h) == h[Len(h)]

Range(s) == {s[i] : i \in 1 .. Len(s)}

\* the side that made the last move
mover == Not(board.turn)

Init ==
  /\ fen \in WalkFens
  /\ build = "debug"
  /\ parsed = None
  /\ input = <<>>
  /\ output = None
  /\ \E loaded \in {Game_new(FENS[fen])} :
       /\ loaded.tag = "Ok"
       /\ board = loaded.game.board
  /\ history = <<>>
  /\ halfmove_clock = 0
  /\ fullmove_number = 1
  /\ pc = "node"
  /\ depth = 0
  /\ frames = <<>>
  /\ result = 0

\* game.make_move(*m) for a move m of gen_moves
MakeMove ==
  /\ pc = "node"
  /\ Len(history) < MaxDepth
  /\ \E m \in Range(gen_moves(board)) : SetGame(make_move(game, m))
  /\ pc' = "made"
  /\ depth' = depth + 1
  /\ UNCHANGED <<input, output, build, parsed, fen, frames, result>>

\* is_check(!turn) is false: perft recurses into the position
Accept ==
  /\ pc = "made"
  /\ is_some(board.king_position[ColorField(mover)])
  /\ ~is_check(board, mover)
  /\ pc' = "node"
  /\ UNCHANGED <<input, output, build, parsed, board, history, halfmove_clock, fullmove_number, fen,
                 depth, frames, result>>

\* is_check(!turn) is true: the move is unmade and skipped
Reject ==
  /\ pc = "made"
  /\ is_some(board.king_position[ColorField(mover)])
  /\ is_check(board, mover)
  /\ SetGame(unmake_move(game, Last(history)))
  /\ pc' = "node"
  /\ depth' = depth - 1
  /\ UNCHANGED <<input, output, build, parsed, fen, frames, result>>

\* king_position(color) finds no king: expect("King position not set")
Panic ==
  /\ pc = "made"
  /\ ~is_some(board.king_position[ColorField(mover)])
  /\ pc' = "panic"
  /\ UNCHANGED <<input, output, build, parsed, board, history, halfmove_clock, fullmove_number, fen,
                 depth, frames, result>>

\* the recursion is back: game.unmake_move(*m)
Return ==
  /\ pc = "node"
  /\ history # <<>>
  /\ SetGame(unmake_move(game, Last(history)))
  /\ pc' = "node"
  /\ depth' = depth - 1
  /\ UNCHANGED <<input, output, build, parsed, fen, frames, result>>

\* game.unmake_move(m) with nothing to undo: history.pop() is None and
\* expect("No moves to undo") panics before the board is touched
UnmakeEmpty ==
  /\ pc = "node"
  /\ history = <<>>
  /\ pc' = "panic"
  /\ UNCHANGED <<input, output, build, parsed, board, history, halfmove_clock,
                 fullmove_number, fen, depth, frames, result>>

Next == MakeMove \/ Accept \/ Reject \/ Panic \/ Return \/ UnmakeEmpty

Spec == Init /\ [][Next]_vars

----------------------------------------------------------------------------
(* perft: perft.rs.  The recursion threads the game through every          *)
(* make_move / unmake_move pair, as the code mutates it in place; the      *)
(* move vector of a node is generated once, on entry.                      *)

RECURSIVE perft(_, _)
RECURSIVE perft_loop(_, _, _, _, _)

\* a return of perft: its value, the game as the call leaves it, and
\* whether the call panicked
Returned(nodes, g, panic) == [nodes |-> nodes, game |-> g, panic |-> panic]

\* let nodes = if game.board.is_check(!game.board.turn) { 0 } else { perft(..) }
perft_nodes(g1, d) ==
  IF ~is_some(g1.board.king_position[ColorField(Not(g1.board.turn))])
  THEN Returned(0, g1, TRUE)
  ELSE IF is_check(g1.board, Not(g1.board.turn))
  THEN Returned(0, g1, FALSE)
  ELSE perft(g1, d - 1)

\* game.unmake_move(*m)
perft_unmake(r, m) ==
  IF r.panic THEN r ELSE Returned(r.nodes, unmake_move(r.game, m), FALSE)

\* one iteration of `for m in &moves`: the game after it and its nodes
perft_iteration(g, d, m) == perft_unmake(perft_nodes(make_move(g, m), d), m)

\* all_nodes += nodes
perft_add(st, r) == Returned(st.nodes + r.nodes, r.game, r.panic)

\* the iterations lo..hi of `for m in &moves`, in order; st holds the game
\* and all_nodes, and a panic ends the loop
perft_loop(st, d, moves, lo, hi) ==
  IF lo > hi \/ st.panic THEN st
  ELSE IF lo = hi
  THEN perft_add(st, perft_iteration(st.game, d, moves[lo]))
  ELSE perft_loop(perft_loop(st, d, moves, lo, (lo + hi) \div 2), d, moves,
                  (lo + hi) \div 2 + 1, hi)

\* let moves = game.board.gen_moves().unwrap(); let mut all_nodes = 0
perft_moves(g, d, moves) ==
  perft_loop(Returned(0, g, FALSE), d, moves, 1, Len(moves))

\* perft with the depth == 0 case returning 0
perft_counts_no_leaf(g, d) ==
  IF d = 0 THEN Returned(0, g, FALSE)
  ELSE perft_moves(g, d, gen_moves(g.board))

perft(g, d) ==
  IF d = 0 THEN Returned(1, g, FALSE)
  ELSE perft_moves(g, d, gen_moves(g.board))

InitPerft ==
  /\ fen \in PerftFens
  /\ build = "debug"
  /\ parsed = None
  /\ input = <<>>
  /\ output = None
  /\ depth \in PerftDepths
  /\ \E loaded \in {Game_new(FENS[fen])} :
       /\ loaded.tag = "Ok"
       /\ board = loaded.game.board
  /\ history = <<>>
  /\ halfmove_clock = 0
  /\ fullmove_number = 1
  /\ pc = "perft"
  /\ frames = <<>>
  /\ result = 0

\* depth == 0: return 1
PerftLeaf ==
  /\ pc = "perft"
  /\ depth = 0
  /\ result' = 1
  /\ pc' = "done"
  /\ UNCHANGED <<input, output, build, parsed, board, history, halfmove_clock, fullmove_number, fen,
                 depth, frames>>

\* let moves = game.board.gen_moves().unwrap(); let mut all_nodes = 0
PerftEnter ==
  /\ pc = "perft"
  /\ depth > 0
  /\ frames' = <<[moves |-> gen_moves(board), i |-> 1]>>
  /\ result' = 0
  /\ pc' = "loop"
  /\ UNCHANGED <<input, output, build, parsed, board, history, halfmove_clock, fullmove_number, fen, depth>>

\* one iteration of the root loop: make, test, recurse, unmake, add
PerftIterate ==
  /\ pc = "loop"
  /\ frames[1].i <= Len(frames[1].moves)
  /\ \E r \in {perft_iteration(game, depth, frames[1].moves[frames[1].i])} :
         /\ SetGame(r.game)
         /\ result' = result + r.nodes
         /\ pc' = IF r.panic THEN "panic" ELSE "loop"
  /\ frames' = <<[frames[1] EXCEPT !.i = @ + 1]>>
  /\ UNCHANGED <<input, output, build, parsed, fen, depth>>

\* the loop is over: return all_nodes
PerftExit ==
  /\ pc = "loop"
  /\ frames[1].i > Len(frames[1].moves)
  /\ pc' = "done"
  /\ UNCHANGED <<input, output, build, parsed, board, history, halfmove_clock, fullmove_number, fen,
                 depth, frames, result>>

NextPerft == PerftLeaf \/ PerftEnter \/ PerftIterate \/ PerftExit

SpecPerft == InitPerft /\ [][NextPerft]_vars

----------------------------------------------------------------------------
(* Properties of make_move / unmake_move, checked over the walk (Spec).    *)

\* perft's filter on the position after make_move: the mover's king is on
\* the board and is_check(!turn) is false
accepted(g1) ==
  /\ is_some(g1.board.king_position[ColorField(Not(g1.board.turn))])
  /\ ~is_check(g1.board, Not(g1.board.turn))

\* C1: in every state S reached from a loaded FEN, for every legal move m of
\* gen_moves, make_move(m) followed by unmake_move(m) gives back S in every
\* field: the bitboards, turn, en_passant, castling, the king squares, the
\* two counters and the history.
C1_MakeUnmakeRestores ==
  pc = "node" =>
    \A m \in Range(gen_moves(board)) :
      \A g1 \in {make_move(game, m)} :
        accepted(g1) => unmake_move(g1, m) = game

KindBoards(b) == <<b.pawns, b.knights, b.bishops, b.rooks, b.queens, b.kings>>

\* C2: in every state reached by making and unmaking generated moves from a
\* well-formed FEN, white and black share no square, the six kind bitboards
\* together cover exactly white | black, and no two kind bitboards share a
\* square.
C2_BitboardsPartition ==
  /\ board.white \cap board.black = {}
  /\ UNION Range(KindBoards(board)) = board.white \cup board.black
  /\ \A i, j \in 1 .. 6 :
       i # j => KindBoards(board)[i] \cap KindBoards(board)[j] = {}

\* C3: from a FEN with one king per colour, after every move that perft's
\* filter accepts there is exactly one white king and exactly one black king
\* on the board.
C3_OneKingPerColour ==
  (pc = "made" /\ accepted(game)) =>
    /\ count(board.kings \cap board.white) = 1
    /\ count(board.kings \cap board.black) = 1

RECURSIVE ray(_, _, _)
\* the squares a slider on `from` reaches in one direction: up to and
\* including the first occupied square
ray(b, from, direction) ==
  IF is_empty(shift(from, direction)) THEN {}
  ELSE IF intersects(shift(from, direction), anything(b))
  THEN shift(from, direction)
  ELSE shift(from, direction) \cup ray(b, shift(from, direction), direction)

\* the squares the piece of colour `by` on square s attacks, by the rules of
\* chess
attacks_from(b, by, s) ==
  IF s \in b.pawns
  THEN UNION {shift({s}, IF by = "White" THEN d[1] ELSE d[2]) :
                d \in {<<"NorthEast", "SouthEast">>, <<"NorthWest", "SouthWest">>}}
  ELSE IF s \in b.knights
  THEN UNION {shift({s}, KNIGHT_MOVES[k]) : k \in 1 .. 8}
  ELSE IF s \in b.kings
  THEN UNION {shift({s}, SLIDING_MOVES[k]) : k \in 1 .. 8}
  ELSE UNION {ray(b, {s}, SLIDING_MOVES[k]) :
                k \in {j \in 1 .. 8 :
                         \/ s \in b.queens
                         \/ s \in b.rooks /\ SLIDING_MOVES[j] \in Range(STRAIGHT_MOVES)
                         \/ s \in b.bishops /\ SLIDING_MOVES[j] \in Range(DIAGONAL_MOVES)}}

\* the squares attacked by any piece of colour `by`, of any kind
attacked_by(b, by) ==
  UNION {attacks_from(b, by, s) : s \in get_color_mask(b, by)}

\* C4: a move that perft's filter accepts never leaves the mover's king on a
\* square attacked by an enemy piece of any kind (pawn, knight, bishop, rook,
\* queen or king), and a move the filter skips always leaves the mover's king
\* attacked.
C4_FilterIsLegality ==
  (pc = "made" /\ is_some(board.king_position[ColorField(mover)])) =>
    (accepted(game) <=>
       ~intersects(board.king_position[ColorField(mover)],
                   attacked_by(board, board.turn)))

\* the side to move of the loaded FEN
fen_turn == IF FENS[fen].turn = <<"w">> THEN "White" ELSE "Black"

\* C5: board.turn is the FEN's side to move when the number of make_move
\* calls minus the number of unmake_move calls is even, and the other side
\* when it is odd.
C5_TurnParity ==
  board.turn = IF depth % 2 = 0 THEN fen_turn ELSE Not(fen_turn)

\* a move was made and unmade at the root of the position loaded with an
\* en-passant target (the target is gone, so both calls have acted): the
\* balance is even and the turn is the FEN's
C5_Witness ==
  /\ pc = "node"
  /\ depth = 0
  /\ is_some(Game_new(FENS[fen]).game.board.en_passant)
  /\ ~is_some(board.en_passant)
  /\ board.turn = fen_turn

\* a pawn move of two ranks
double_push(m) ==
  /\ m.what.kind = "Pawn"
  /\ idx(m.to) - idx(m.from) \in {16, 0 - 16}

\* the square a double push skips
skipped(m) == {(idx(m.from) + idx(m.to)) \div 2}

\* a pawn capture whose victim does not stand on the destination
en_passant_capture(m) ==
  /\ m.what.kind = "Pawn"
  /\ is_some(m.capture)
  /\ unwrap(m.capture).position # m.to

\* C6: make_move sets the en-passant target exactly when the move is a double
\* pawn push, to the square the pawn skipped, and clears it on every other
\* move; so gen_moves gives an en-passant capture only on the ply right after
\* the opponent's double push (the last move made, or the one the FEN's
\* en-passant field records when no move has been made).
C6_EnPassantOnePly ==
  /\ pc = "made" =>
       board.en_passant = IF double_push(Last(history))
                          THEN Some(skipped(Last(history)))
                          ELSE None
  /\ pc = "node" =>
       \A m \in Range(gen_moves(board)) :
         en_passant_capture(m) =>
           IF history = <<>>
           THEN Game_new(FENS[fen]).game.board.en_passant = Some(m.to)
           ELSE /\ double_push(Last(history))
                /\ Last(history).what.color = Not(board.turn)
                /\ skipped(Last(history)) = m.to

\* White has just pushed a2-a4 and gen_moves gives Black the capture b4xa3
C6_Witness ==
  /\ pc = "node"
  /\ history # <<>>
  /\ double_push(Last(history))
  /\ board.en_passant = Some(skipped(Last(history)))
  /\ \E m \in Range(gen_moves(board)) : en_passant_capture(m)

\* C7: from a FEN whose en-passant field is "-", in every state reached by
\* make_move and unmake_move, en_passant is unset or has exactly one bit, on
\* rank 3 when White made the last move and on rank 6 when Black did.
C7_EnPassantRank ==
  FENS[fen].en_passant = <<"-">> =>
    \/ board.en_passant = None
    \/ /\ count(unwrap(board.en_passant)) = 1
       /\ idx(unwrap(board.en_passant)) \div 8 =
            IF mover = "White" THEN 2 ELSE 5

\* Black has just pushed a7-a5: the target a6 is on rank 6
C7_Witness ==
  /\ FENS[fen].en_passant = <<"-">>
  /\ pc = "made"
  /\ mover = "Black"
  /\ double_push(Last(history))
  /\ is_some(board.en_passant)
  /\ idx(unwrap(board.en_passant)) \div 8 = 5

----------------------------------------------------------------------------
(* Properties of perft, checked over SpecPerft.                            *)

\* the moves of one kind in a move vector
moves_of_kind(moves, kind) ==
  {i \in 1 .. Len(moves) : moves[i].what.kind = kind}

\* C8: perft from the starting position returns 1 at depth 0, 20 at depth 1
\* (16 pawn pushes and 4 knight moves), 400 at depth 2 and 8902 at depth 3.
C8_PerftStartPosition ==
  fen = 1 =>
    /\ pc = "done" =>
         result = CASE depth = 0 -> 1
                    [] depth = 1 -> 20
                    [] depth = 2 -> 400
                    [] depth = 3 -> 8902
    /\ (pc = "loop" /\ depth = 1) =>
         /\ Cardinality(moves_of_kind(frames[1].moves, "Pawn")) = 16
         /\ Cardinality(moves_of_kind(frames[1].moves, "Knight")) = 4
         /\ Len(frames[1].moves) = 20

\* perft(3) from the starting position has returned
C8_Witness ==
  /\ fen = 1
  /\ pc = "done"
  /\ depth = 3
  /\ result = 8902

\* C9: perft at depth 3 from the Kiwipete position returns 97862.
C9_PerftKiwipete ==
  (fen = 2 /\ pc = "done" /\ depth = 3) => result = 97862

----------------------------------------------------------------------------
(* Castling rights, checked over the walk (Spec).                          *)

\* the two castling bits of a colour
both_rights(color) == IF color = "White" THEN WHITE_BOTH ELSE BLACK_BOTH

\* C10: after make_move of a king move by colour c (a step or a castle),
\* neither of c's castling bits is set, whichever of them c held before (both,
\* one or none), and the other colour's bits are as they were.
C10_KingMoveForfeitsRights ==
  [][(pc = "node" /\ pc' = "made" /\ Last(history').what.kind = "King") =>
       /\ board'.castling \cap both_rights(Last(history').what.color) = {}
       /\ board'.castling \cap both_rights(Not(Last(history').what.color))
            = board.castling \cap both_rights(Not(Last(history').what.color))
    ]_vars

\* the castling right that belongs to a rook of `color` on its home corner
\* `square` (a1, h1, a8, h8), or no right for any other square
corner_right(color, square) ==
  IF color = "White" /\ square = Sq(<<"h", "1">>) THEN WHITE_KINGSIDE
  ELSE IF color = "White" /\ square = Sq(<<"a", "1">>) THEN WHITE_QUEENSIDE
  ELSE IF color = "Black" /\ square = Sq(<<"h", "8">>) THEN BLACK_KINGSIDE
  ELSE IF color = "Black" /\ square = Sq(<<"a", "8">>) THEN BLACK_QUEENSIDE
  ELSE {}

\* the rights a move must clear by the rules: the one of the corner a rook
\* leaves and the one of the corner a rook is captured on
rook_rights_lost(m) ==
  (IF m.what.kind = "Rook" THEN corner_right(m.what.color, m.from) ELSE {})
    \cup (IF is_some(m.capture) /\ unwrap(m.capture).kind = "Rook"
          THEN corner_right(unwrap(m.capture).color, unwrap(m.capture).position)
          ELSE {})

\* C11: after make_move of a move in which a rook leaves its home corner (a1,
\* h1, a8, h8), or in which a rook standing on its home corner is captured,
\* the castling bit of that colour and side is clear in board.castling.
C11_RookMoveForfeitsRight ==
  [][(pc = "node" /\ pc' = "made") =>
       board'.castling \cap rook_rights_lost(Last(history')) = {}
    ]_vars

\* C12: no castling move (short or long, either colour) is generated, or
\* accepted by perft's filter and so counted, in a position where the
\* castling king's origin square is attacked by the opponent: a side in check
\* never castles.
C12_NoCastleOutOfCheck ==
  /\ [](pc = "node" =>
          \A m \in Range(gen_moves(board)) :
            is_some(m.castle_move) =>
              ~intersects(m.from, attacked_by(board, Not(board.turn))))
  /\ [][(pc = "node" /\ pc' = "made" /\ is_some(Last(history').castle_move)
           /\ accepted([board |-> board', history |-> history',
                        halfmove_clock |-> halfmove_clock',
                        fullmove_number |-> fullmove_number']))
          => ~intersects(Last(history').from,
                         attacked_by(board, Not(board.turn)))]_vars

\* the initial square of the king of a colour: e1 or e8
king_home(color) ==
  IF color = "White" THEN Sq(<<"e", "1">>) ELSE Sq(<<"e", "8">>)

\* the right a castling move uses: its colour's kingside right when the king
\* goes east, its queenside right when it goes west
castle_right(m) ==
  IF idx(m.to) > idx(m.from)
  THEN (IF m.what.color = "White" THEN WHITE_KINGSIDE ELSE BLACK_KINGSIDE)
  ELSE (IF m.what.color = "White" THEN WHITE_QUEENSIDE ELSE BLACK_QUEENSIDE)

\* C13: each of the four castling moves is generated only when the king of
\* that colour is on its own initial square and the right of that same colour
\* and side is held: e1g1 needs WK, e1c1 needs WQ, e8g8 needs BK, e8c8 needs
\* BQ; Black's long castle is never generated when BQ is clear.
C13_CastleNeedsOwnRight ==
  pc = "node" =>
    \A m \in Range(gen_moves(board)) :
      is_some(m.castle_move) =>
        /\ m.from = king_home(m.what.color)
        /\ get_castling_right(board.castling, castle_right(m))

----------------------------------------------------------------------------
(* Legal moves: the generated moves that perft's filter accepts.           *)

\* the moves of gen_moves after which is_check(!turn) is false
legal_moves(g) ==
  {m \in Range(gen_moves(g.board)) : accepted(make_move(g, m))}

\* the castling move of the king from `from` to `to` with the rook slide
\* rook_from -> rook_to is among the legal moves
castle_is_legal(g, from, to, rook_from, rook_to) ==
  \E m \in legal_moves(g) :
    /\ m.what.kind = "King"
    /\ m.from = Sq(from)
    /\ m.to = Sq(to)
    /\ m.castle_move = Some(<<Sq(rook_from), Sq(rook_to)>>)

\* the squares a8 .. h8
eighth_rank == {s \in Squares : s \div 8 = 7}

\* Black's king and rooks stand on e8, a8 and h8 with nothing between them,
\* and White attacks neither the king nor a square between it and a rook
\* (in the loaded position the rooks on a1 and h1 face those on a8 and h8, as
\* the rules of castling allow)
black_castles_untouched(b) ==
  /\ b.kings \cap b.black = Sq(<<"e", "8">>)
  /\ b.rooks \cap b.black = Sq(<<"a", "8">>) \cup Sq(<<"h", "8">>)
  /\ anything(b) \cap eighth_rank
       = Sq(<<"a", "8">>) \cup Sq(<<"e", "8">>) \cup Sq(<<"h", "8">>)
  /\ attacked_by(b, "White")
       \cap (eighth_rank \ (Sq(<<"a", "8">>) \cup Sq(<<"h", "8">>))) = {}

\* C14: from r3k2r/8/8/8/8/8/8/R3K2R w KQkq - the legal moves of White
\* include e1g1 (rook h1 to f1) and e1c1 (rook a1 to d1); and after one White
\* ply that leaves Black's king, rooks and the squares between them untouched
\* and unattacked, the legal moves of Black include e8g8 and e8c8.
C14_BothSidesCastle ==
  (FENS[fen] = FEN_BOTH_CASTLES /\ pc = "node") =>
    /\ history = <<>> =>
         /\ castle_is_legal(game, <<"e", "1">>, <<"g", "1">>,
                            <<"h", "1">>, <<"f", "1">>)
         /\ castle_is_legal(game, <<"e", "1">>, <<"c", "1">>,
                            <<"a", "1">>, <<"d", "1">>)
    /\ (Len(history) = 1 /\ black_castles_untouched(board)) =>
         /\ castle_is_legal(game, <<"e", "8">>, <<"g", "8">>,
                            <<"h", "8">>, <<"f", "8">>)
         /\ castle_is_legal(game, <<"e", "8">>, <<"c", "8">>,
                            <<"a", "8">>, <<"d", "8">>)

----------------------------------------------------------------------------
(* The generator of Game (game.rs), which parse_move searches: the same    *)
(* as the generator of Board but for the promotion test of a pawn push,    *)
(* and with no castling and no rights delta on king moves.                 *)

\* Kind::Pawn branch of Game::gen_moves_from_piece
Game_gen_pawn_moves(b, origin_square, piece) ==
  LET opposite_color_mask == IF b.turn = "White" THEN b.black ELSE b.white
      to == IF b.turn = "White" THEN north(origin_square)
            ELSE south(origin_square)
      colors_mask == b.white \cup b.black
      new_move == Move_new(origin_square, to, piece)
      pushes ==
        IF ~is_empty(to) /\ ~intersects(to, colors_mask)
        THEN (IF intersects(to, RANK_1 \cup RANK_8)
              THEN with_promotions(new_move)
              ELSE <<new_move>>)
             \o pawn_double_push(b, origin_square, piece)
        ELSE <<>>
      capture(direction) ==
        LET cto == shift(origin_square, direction)
        IN  IF is_empty(cto) THEN <<>>
            ELSE IF intersects(cto, opposite_color_mask)
            THEN LET cap == with_capture(Move_new(origin_square, cto, piece),
                                         unwrap(get_piece(b, cto)))
                 IN  IF intersects(cto, PAWN_PROMOTION_MASK)
                     THEN with_promotions(cap)
                     ELSE <<cap>>
            ELSE IF is_some(b.en_passant) /\ cto = unwrap(b.en_passant)
            THEN <<with_capture(
                     Move_new(origin_square, cto, piece),
                     get_en_passant_victim(b, unwrap(b.en_passant),
                                           Not(b.turn)))>>
            ELSE <<>>
  IN  pushes \o capture(pawn_captures(b.turn)[1])
             \o capture(pawn_captures(b.turn)[2])

\* Kind::King branch of Game::gen_moves_from_piece: the eight steps
Game_gen_king_moves(b, origin_square, piece) ==
  LET current_turn_mask == IF b.turn = "White" THEN b.white ELSE b.black
      opposite_color_mask == IF b.turn = "White" THEN b.black ELSE b.white
      step(direction) ==
        LET to == shift(origin_square, direction)
            new_move == Move_new(origin_square, to, piece)
        IN  IF ~is_empty(to) /\ ~intersects(to, current_turn_mask)
            THEN IF intersects(to, opposite_color_mask)
                 THEN <<with_capture(new_move, unwrap(get_piece(b, to)))>>
                 ELSE <<new_move>>
            ELSE <<>>
  IN  ConcatAll([k \in 1 .. 8 |-> step(SLIDING_MOVES[k])])

Game_gen_moves_from_piece(b, origin_square) ==
  LET p == get_piece(b, origin_square)
      piece == unwrap(p)
  IN  IF ~is_some(p) THEN <<>>
      ELSE CASE piece.kind = "Pawn" ->
                  Game_gen_pawn_moves(b, origin_square, piece)
             [] piece.kind = "Knight" ->
                  gen_knight_moves(b, origin_square, piece)
             [] piece.kind = "Bishop" ->
                  gen_slider_moves(b, origin_square, piece, DIAGONAL_MOVES)
             [] piece.kind = "Rook" ->
                  gen_slider_moves(b, origin_square, piece, STRAIGHT_MOVES)
             [] piece.kind = "Queen" ->
                  gen_slider_moves(b, origin_square, piece, SLIDING_MOVES)
             [] piece.kind = "King" ->
                  Game_gen_king_moves(b, origin_square, piece)

\* Game::gen_moves
Game_gen_moves(g) ==
  LET current_turn_mask == IF g.board.turn = "White" THEN g.board.white
                           ELSE g.board.black
      moves == ConcatAll([i \in 1 .. 64 |->
                            IF (anything(g.board) \cap {i - 1}
                                  \cap current_turn_mask) # {}
                            THEN Game_gen_moves_from_piece(g.board, {i - 1})
                            ELSE <<>>])
  IN  SelectSeq(moves, LAMBDA m : ~is_empty(m.to))

\* a build with overflow checks (debug) or without them (release)
Builds == {"debug", "release"}

\* Game::parse_move: Ok(move), Err(InvalidMove) or a panic.  The slices
\* [0..2] and [2..4] panic on a string shorter than four bytes; characters
\* after the fourth are not read
parse_move(bld, g, move) ==
  LET from == from_algebraic(SubSeq(move, 1, 2))
      to == from_algebraic(SubSeq(move, 3, 4))
      hits == SelectSeq(Game_gen_moves(g),
                        LAMBDA legal_move :
                          legal_move.from = from.val /\ legal_move.to = to.val)
  IN  IF Len(move) < 4
      THEN [tag |-> "Panic", move |-> None, err |-> ""]
      ELSE IF bld = "debug" /\ (from.err = "Overflow" \/ to.err = "Overflow")
      THEN [tag |-> "Panic", move |-> None, err |-> ""]
      ELSE IF hits # <<>>
      THEN [tag |-> "Ok", move |-> Some(Head(hits)), err |-> ""]
      ELSE [tag |-> "Err", move |-> None, err |-> "InvalidMove"]

----------------------------------------------------------------------------
(* The command line: main.rs.  After Game::new, each word of the moves     *)
(* argument goes through parse_move and, when it is Ok, make_move.         *)

\* the words given on the command line
MoveStrings ==
  {<<"e", "2", "e", "4">>, <<"d", "7", "d", "5">>, <<"e", "4", "d", "5">>,
   <<"a", "7", "a", "8">>, <<"a", "7", "a", "8", "q">>,
   <<"a", "7", "a", "8", "n">>, <<"a", "7", "b", "8", "n">>,
   <<"e", "1", "d", "1">>, <<"e", "1", "d", "2">>, <<"e", "2", "e", "5">>,
   <<"i", "1", "a", "3">>, <<"a", "9", "a", "3">>, <<"e", "2">>}

\* the positions given on the command line (indices into FENS)
CliFens == {1, 7, 8, 13}

\* the most words that are read
MaxMoves == 3

InitCli ==
  /\ fen \in CliFens
  /\ build \in Builds
  /\ \E loaded \in {Game_new(FENS[fen])} :
       /\ loaded.tag = "Ok"
       /\ board = loaded.game.board
  /\ history = <<>>
  /\ halfmove_clock = 0
  /\ fullmove_number = 1
  /\ pc = "args"
  /\ parsed = None
  /\ input = <<>>
  /\ output = None
  /\ depth = 0
  /\ frames = <<>>
  /\ result = 0

\* let mv = game.parse_move(mv)
ParseMove ==
  /\ pc = "args"
  /\ Len(history) < MaxMoves
  /\ \E move \in MoveStrings : parsed' = parse_move(build, game, move)
  /\ pc' = "parsed"
  /\ UNCHANGED <<input, output, board, history, halfmove_clock, fullmove_number, fen, depth,
                 frames, result, build>>

\* parse_move returned Ok: game.make_move(mv)
MakeParsed ==
  /\ pc = "parsed"
  /\ parsed.tag = "Ok"
  /\ SetGame(make_move(game, unwrap(parsed.move)))
  /\ pc' = "args"
  /\ parsed' = None
  /\ depth' = depth + 1
  /\ UNCHANGED <<input, output, fen, frames, result, build>>

\* parse_move returned Err: `?` ends main with the error
ParseError ==
  /\ pc = "parsed"
  /\ parsed.tag = "Err"
  /\ pc' = "error"
  /\ UNCHANGED <<input, output, board, history, halfmove_clock, fullmove_number, fen, depth,
                 frames, result, build, parsed>>

\* parse_move panicked
ParsePanic ==
  /\ pc = "parsed"
  /\ parsed.tag = "Panic"
  /\ pc' = "panic"
  /\ UNCHANGED <<input, output, board, history, halfmove_clock, fullmove_number, fen, depth,
                 frames, result, build, parsed>>

NextCli == ParseMove \/ MakeParsed \/ ParseError \/ ParsePanic

SpecCli == InitCli /\ [][NextCli]_vars

----------------------------------------------------------------------------
(* Promotions, checked over the command line (SpecCli).                    *)

\* the pawn moves of a move vector that go from `from` to `to`
pawn_moves_between(moves, from, to) ==
  {i \in 1 .. Len(moves) :
     moves[i].what.kind = "Pawn" /\ moves[i].from = from /\ moves[i].to = to}

\* the last rank of a colour: rank 8 for White, rank 1 for Black
last_rank(color) ==
  {s \in Squares : s \div 8 = IF color = "White" THEN 7 ELSE 0}

\* every pawn move of the vector is there four times, once per promotion
\* kind, when it ends on the last rank, and once, without promotion, when
\* it ends anywhere else
promotion_fan_out(moves) ==
  \A i \in 1 .. Len(moves) :
    moves[i].what.kind = "Pawn" =>
      LET same == pawn_moves_between(moves, moves[i].from, moves[i].to)
      IN  IF intersects(moves[i].to, last_rank(moves[i].what.color))
          THEN /\ Cardinality(same) = 4
               /\ {moves[k].promotion : k \in same}
                    = {Some("Queen"), Some("Rook"), Some("Bishop"),
                       Some("Knight")}
          ELSE /\ Cardinality(same) = 1
               /\ moves[i].promotion = None

\* the moves of a vector that perft's filter accepts
legal_of(g, moves) == {m \in Range(moves) : accepted(make_move(g, m))}

\* the legal pawn moves are the four promotions a7a8
four_promotions_a7a8(g, moves) ==
  {<<m.from, m.to, m.promotion>> :
     m \in {x \in legal_of(g, moves) : x.what.kind = "Pawn"}}
    = {<<Sq(<<"a", "7">>), Sq(<<"a", "8">>), Some(k)>> :
         k \in {"Queen", "Rook", "Bishop", "Knight"}}

\* C15: a pawn push or pawn capture is emitted as exactly four moves, one per
\* promotion kind Queen, Rook, Bishop, Knight, exactly when its destination
\* is on rank 8 (White) or rank 1 (Black), and as a single move without
\* promotion for every other destination; from 8/P7/8/8/8/8/8/k6K w - - the
\* pawn's legal moves are exactly the four promotions a7a8.  This is stated
\* of both generators, Game::gen_moves and Board::gen_moves.
C15_PromotionFanOut ==
  pc = "args" =>
    /\ promotion_fan_out(Game_gen_moves(game))
    /\ promotion_fan_out(gen_moves(board))
    /\ (FENS[fen] = FEN_PAWN_A7 /\ history = <<>>) =>
         /\ four_promotions_a7a8(game, Game_gen_moves(game))
         /\ four_promotions_a7a8(game, gen_moves(board))

----------------------------------------------------------------------------
(* En passant after 1. e4 d5, checked over the walk (Spec).                *)

\* the move goes from the square named `from` to the square named `to`
goes(m, from, to) == m.from = Sq(from) /\ m.to = Sq(to)

\* the moves made so far are e2e4 and then d7d5, from the starting position
after_e4_d5 ==
  /\ FENS[fen] = FEN_START
  /\ Len(history) = 2
  /\ goes(history[1], <<"e", "2">>, <<"e", "4">>)
  /\ goes(history[2], <<"d", "7">>, <<"d", "5">>)

\* C16: from the starting position, after make_move of e2e4 and then d7d5,
\* board.en_passant is d6; White's legal moves include e4d5 as an ordinary
\* capture of the pawn on d5, and no move of White is an en-passant capture.
C16_NoEnPassantAfterE4D5 ==
  after_e4_d5 =>
    /\ board.en_passant = Some(Sq(<<"d", "6">>))
    /\ \E m \in legal_moves(game) :
         /\ goes(m, <<"e", "4">>, <<"d", "5">>)
         /\ m.capture = Some(Piece("Black", "Pawn", Sq(<<"d", "5">>)))
    /\ \A m \in Range(gen_moves(board)) : ~en_passant_capture(m)

\* d7d5 has just been made after e2e4 and perft is about to generate
\* White's replies
C16_Witness ==
  /\ after_e4_d5
  /\ pc = "node"
  /\ board.turn = "White"
  /\ board.en_passant = Some(Sq(<<"d", "6">>))

----------------------------------------------------------------------------
(* The en-passant capture, checked over the walk (Spec).                   *)

\* the square directly behind the target of an en-passant capture, seen
\* from the capturing side: one rank south of it when White captures, one
\* rank north when Black does
behind(m) ==
  {IF m.what.color = "White" THEN idx(m.to) - 8 ELSE idx(m.to) + 8}

\* the pawns of a colour
pawns_of(b, color) == b.pawns \cap get_color_mask(b, color)

\* C17: making an en-passant capture removes the opposing pawn standing
\* directly behind the en-passant target (south of it when White captures,
\* north of it when Black captures), not a piece on the destination square;
\* afterwards the capturing pawn is on the target square and the victim's
\* square is empty, and unmake_move puts the victim back on that same square
\* (and the capturing pawn back where it came from).
C17_EnPassantVictim ==
  [][/\ (pc = "node" /\ pc' = "made" /\ en_passant_capture(Last(history')))
          => \E m \in {Last(history')} :
               /\ board.en_passant = Some(m.to)
               /\ ~intersects(m.to, anything(board))
               /\ unwrap(m.capture).position = behind(m)
               /\ behind(m) \subseteq pawns_of(board, Not(m.what.color))
               /\ ~intersects(behind(m), anything(board'))
               /\ m.to \subseteq pawns_of(board', m.what.color)
               /\ ~intersects(m.from, anything(board'))
     /\ (Len(history') < Len(history) /\ en_passant_capture(Last(history)))
          => \E m \in {Last(history)} :
               /\ behind(m) \subseteq pawns_of(board', Not(m.what.color))
               /\ m.from \subseteq pawns_of(board', m.what.color)
               /\ ~intersects(m.to, anything(board'))
    ]_vars

\* White's pawn has just taken en passant: it stands on the target, a black
\* double push came before, and the square behind the target is empty
C17_Witness ==
  /\ pc = "made"
  /\ en_passant_capture(Last(history))
  /\ mover = "White"
  /\ Len(history) >= 2
  /\ double_push(history[Len(history) - 1])
  /\ Last(history).to \subseteq pawns_of(board, "White")
  /\ ~intersects(behind(Last(history)), anything(board))

----------------------------------------------------------------------------
(* Check evasion from 4k3/8/8/8/8/8/4r3/4K3 w - -, checked over the walk.  *)

\* the walk stands at the loaded position 4k3/8/8/8/8/8/4r3/4K3 w - -
at_rook_check ==
  /\ FENS[fen] = FEN_CHECK
  /\ pc = "node"
  /\ history = <<>>

\* White is in check, by the rook on e2, and every legal move is a king move
\* that leaves the king on a square no black piece attacks
only_king_evasions(g) ==
  /\ is_check(g.board, "White")
  /\ intersects(Sq(<<"e", "1">>), attacks_from(g.board, "Black", 12))
  /\ \A m \in legal_moves(g) :
       /\ m.what.kind = "King"
       /\ ~intersects(m.to, attacked_by(make_move(g, m).board, "Black"))

\* the from and to squares of the legal moves
legal_steps(g) == {<<m.from, m.to>> : m \in legal_moves(g)}

\* C18 (as amended): from 4k3/8/8/8/8/8/4r3/4K3 w - - White is in check from
\* the rook on e2 and every legal move of White is a king move after which
\* the king is not attacked; the legal moves are exactly e1d1, e1f1 and the
\* capture e1e2, and e1d2 and e1f2 are not legal.
C18_CheckEvasions ==
  at_rook_check =>
    /\ only_king_evasions(game)
    /\ legal_steps(game)
         = {<<Sq(<<"e", "1">>), Sq(<<"d", "1">>)>>,
            <<Sq(<<"e", "1">>), Sq(<<"f", "1">>)>>,
            <<Sq(<<"e", "1">>), Sq(<<"e", "2">>)>>}

\* C18 (as stated): from 4k3/8/8/8/8/8/4r3/4K3 w - - White is in check from
\* the rook on e2, every legal move of White is a king move after which the
\* king is not attacked, and e1d1 and e1f1 are not among the legal moves.
C18_AsStated ==
  at_rook_check =>
    /\ only_king_evasions(game)
    /\ <<Sq(<<"e", "1">>), Sq(<<"d", "1">>)>> \notin legal_steps(game)
    /\ <<Sq(<<"e", "1">>), Sq(<<"f", "1">>)>> \notin legal_steps(game)

\* the king has stepped from e1 to d1 and perft's filter has accepted it
C18_Witness ==
  /\ FENS[fen] = FEN_CHECK
  /\ pc = "node"
  /\ Len(history) = 1
  /\ goes(history[1], <<"e", "1">>, <<"d", "1">>)
  /\ ~intersects(Sq(<<"d", "1">>), attacked_by(board, "Black"))

----------------------------------------------------------------------------
(* is_attacked against the attack relation of chess, checked over the walk. *)

\* is_attacked agrees with the attack relation on every square, for `color`
is_attacked_is_exact(b, color) ==
  \E attacked \in {attacked_by(b, Not(color))} :
    \A s \in Squares : is_attacked(b, {s}, s, color) <=> (s \in attacked)

\* C19: is_attacked(square, color) is true if and only if at least one piece
\* of the opposite colour, of any of the six kinds (king included), attacks
\* the square on the current board, sliders being blocked by the first
\* occupied square on their ray.
C19_IsAttackedIsExact ==
  pc = "node" =>
    /\ is_attacked_is_exact(board, "White")
    /\ is_attacked_is_exact(board, "Black")

----------------------------------------------------------------------------
(* parse_move, checked over the command line (SpecCli).                    *)

\* the word names two squares of the board in its first four characters
names_two_squares(move) ==
  /\ Len(move) >= 4
  /\ IsIn(Files, move[1]) /\ IsIn(Ranks, move[2])
  /\ IsIn(Files, move[3]) /\ IsIn(Ranks, move[4])

\* m, made in g, leaves the mover's own king on a square no enemy piece attacks
keeps_own_king_safe(g, m) ==
  \E after \in {make_move(g, m).board} :
    ~intersects(after.kings \cap get_color_mask(after, g.board.turn),
                attacked_by(after, Not(g.board.turn)))

\* what parse_move owes for the word `move` in game g
parse_move_contract(g, move, r) ==
  /\ r.tag = "Ok" =>
       /\ names_two_squares(move)
       /\ unwrap(r.move).from = Sq(SubSeq(move, 1, 2))
       /\ unwrap(r.move).to = Sq(SubSeq(move, 3, 4))
       /\ keeps_own_king_safe(g, unwrap(r.move))
  /\ r.tag # "Ok" => (r.tag = "Err" /\ r.err = "InvalidMove")

\* C20: parse_move(s) returns Ok(m) only for a move m that is legal in the
\* current position (generated, and not leaving the mover's own king
\* attacked) whose from and to squares are the ones named in s; for every
\* other input string, strings shorter than four characters and strings
\* naming squares outside a1..h8 included, it returns Err(InvalidMove) and
\* leaves the game unchanged.
C20_ParseMoveContract ==
  [][ParseMove =>
       /\ \A move \in MoveStrings :
            parsed' = parse_move(build, game, move)
              => parse_move_contract(game, move, parsed')
       /\ UNCHANGED <<input, output, board, history, halfmove_clock, fullmove_number>>]_vars

----------------------------------------------------------------------------
(* Promotion suffixes of parse_move, checked over the command line.        *)

\* the piece kind a promotion suffix names
suffix_kind(c) ==
  IF c = "q" THEN "Queen"
  ELSE IF c = "r" THEN "Rook"
  ELSE IF c = "b" THEN "Bishop"
  ELSE "Knight"

\* the word has five characters and ends in a promotion suffix
has_promotion_suffix(move) ==
  Len(move) = 5 /\ move[5] \in {"q", "r", "b", "n"}

\* C21: for a five-character move string whose fifth character is a
\* promotion suffix q, r, b or n, parse_move returns the move whose promotion
\* kind is the one named by the suffix (a7a8n yields Knight, not Queen).
C21_PromotionSuffix ==
  [][ParseMove =>
       \A move \in {w \in MoveStrings : has_promotion_suffix(w)} :
         (parsed' = parse_move(build, game, move) /\ parsed'.tag = "Ok")
           => unwrap(parsed'.move).promotion = Some(suffix_kind(move[5]))]_vars

----------------------------------------------------------------------------
(* Bitboard::from_algebraic on its own: the name is drawn at the start and *)
(* one call is made.                                                       *)

\* what a call of Bitboard::from_algebraic produces in a build: a panic
\* where overflow checks are on, the wrapped square where they are off
Bitboard_from_algebraic(bld, algebraic) ==
  LET r == from_algebraic(algebraic)
  IN  IF r.ok THEN [tag |-> "Ok", val |-> r.val, err |-> ""]
      ELSE IF r.err = "Overflow"
      THEN IF bld = "debug" THEN [tag |-> "Panic", val |-> {}, err |-> ""]
           ELSE [tag |-> "Ok", val |-> r.val, err |-> ""]
      ELSE [tag |-> "Err", val |-> {}, err |-> r.err]

\* the characters the names are made of
SquareChars == {"a", "h", "i", "1", "8", "9", "0"}

\* the longest name that is tried
MaxName == 3

\* the names given to from_algebraic
SquareNames == UNION {[1 .. n -> SquareChars] : n \in 0 .. MaxName}

InitSquare ==
  /\ input \in SquareNames
  /\ build \in Builds
  /\ output = None
  /\ pc = "call"
  /\ board = Board_DEFAULT
  /\ history = <<>>
  /\ halfmove_clock = 0
  /\ fullmove_number = 1
  /\ fen = 1
  /\ parsed = None
  /\ depth = 0
  /\ frames = <<>>
  /\ result = 0

\* Bitboard::from_algebraic(input) returns Ok or Err
FromAlgebraicReturns ==
  /\ pc = "call"
  /\ Bitboard_from_algebraic(build, input).tag # "Panic"
  /\ output' = Some(Bitboard_from_algebraic(build, input))
  /\ pc' = "returned"
  /\ UNCHANGED <<board, history, halfmove_clock, fullmove_number, fen, depth,
                 frames, result, build, parsed, input>>

\* Bitboard::from_algebraic(input) panics
FromAlgebraicPanics ==
  /\ pc = "call"
  /\ Bitboard_from_algebraic(build, input).tag = "Panic"
  /\ output' = None
  /\ pc' = "panic"
  /\ UNCHANGED <<board, history, halfmove_clock, fullmove_number, fen, depth,
                 frames, result, build, parsed, input>>

NextSquare == FromAlgebraicReturns \/ FromAlgebraicPanics

SpecSquare == InitSquare /\ [][NextSquare]_vars

\* the name is one of a1..h8
is_square_name(name) ==
  Len(name) = 2 /\ IsIn(Files, name[1]) /\ IsIn(Ranks, name[2])

\* bit rank * 8 + file of a name a1..h8
square_bit(name) == (IndexOf(Ranks, name[2]) - 1) * 8 + IndexOf(Files, name[1]) - 1

\* C22: Bitboard::from_algebraic(s) returns the single-bit board for bit
\* rank*8+file when s is one of the 64 names a1..h8, and
\* Err(InvalidSingleSquare) for every other string (wrong length, a file
\* character outside a..h, a rank character outside 1..8); it never panics
\* and never returns a board for an invalid name.
C22_FromAlgebraicTotal ==
  /\ pc # "call" => pc = "returned"
  /\ pc = "returned" =>
       IF is_square_name(input)
       THEN output = Some([tag |-> "Ok", val |-> {square_bit(input)}, err |-> ""])
       ELSE output = Some([tag |-> "Err", val |-> {},
                           err |-> "InvalidSingleSquare"])

----------------------------------------------------------------------------
(* Game::new on its own: the FEN is drawn at the start and one call is     *)
(* made.                                                                   *)

\* characters that no FEN field knows
UnknownChars == {"x", "9", "0"}

\* the piece-placement fields tried: two well-formed ones, and each with one
\* character replaced by an unknown one
FenPieces ==
  UNION {{p} \cup {[p EXCEPT ![k] = c] : k \in 1 .. Len(p), c \in UnknownChars} :
           p \in {FEN_DOUBLE_PUSH.pieces, FEN_CASTLES.pieces}}

FenTurns == {<<"w">>, <<"b">>, <<"x">>}

FenCastlings == {<<"-">>, <<"K", "Q", "k", "q">>, <<"K", "x">>}

FenEnPassants == {<<"-">>, <<"e", "3">>, <<"a", "9">>, <<"e">>}

\* the FENs given to Game::new
FenInputs ==
  [pieces : FenPieces, turn : FenTurns, castling : FenCastlings,
   en_passant : FenEnPassants]

InitFen ==
  /\ input \in FenInputs
  /\ build \in Builds
  /\ output = None
  /\ pc = "call"
  /\ board = Board_DEFAULT
  /\ history = <<>>
  /\ halfmove_clock = 0
  /\ fullmove_number = 1
  /\ fen = 1
  /\ parsed = None
  /\ depth = 0
  /\ frames = <<>>
  /\ result = 0

\* Game::new(input) returns Ok(game)
NewReturnsOk ==
  /\ pc = "call"
  /\ \E loaded \in {Game_new_built(build, input)} :
       /\ loaded.tag = "Ok"
       /\ board' = loaded.game.board
       /\ output' = Some("Ok")
  /\ pc' = "returned"
  /\ UNCHANGED <<history, halfmove_clock, fullmove_number, fen, depth,
                 frames, result, build, parsed, input>>

\* Game::new(input) returns Err(FenError)
NewReturnsErr ==
  /\ pc = "call"
  /\ \E loaded \in {Game_new_built(build, input)} :
       /\ loaded.tag = "Err"
       /\ output' = Some(loaded.err)
  /\ pc' = "returned"
  /\ UNCHANGED <<board, history, halfmove_clock, fullmove_number, fen, depth,
                 frames, result, build, parsed, input>>

\* Game::new(input) panics
NewPanics ==
  /\ pc = "call"
  /\ Game_new_built(build, input).tag = "Panic"
  /\ pc' = "panic"
  /\ UNCHANGED <<board, history, halfmove_clock, fullmove_number, fen, depth,
                 frames, result, build, parsed, input, output>>

NextFen == NewReturnsOk \/ NewReturnsErr \/ NewPanics

SpecFen == InitFen /\ [][NextFen]_vars

\* some character of the sequence is outside the alphabet
has_char_outside(chars, alphabet) ==
  \E k \in 1 .. Len(chars) : chars[k] \notin alphabet

\* a field of the FEN contains an unknown character
has_unknown_character(f) ==
  \/ has_char_outside(f.pieces,
       {"P", "N", "B", "R", "Q", "K", "p", "n", "b", "r", "q", "k",
        "1", "2", "3", "4", "5", "6", "7", "8", "/"})
  \/ f.turn \notin {<<"w">>, <<"b">>}
  \/ has_char_outside(f.castling, {"K", "Q", "k", "q", "-"})

\* C23: Game::new(fen) returns Err(InvalidFen) whenever a field of the FEN
\* contains an unknown character (a piece-placement character outside
\* PNBRQKpnbrqk, 1..8 and '/', a side to move other than w or b, a castling
\* character outside KQkq and '-'); it never panics on such input.
C23_UnknownCharIsInvalidFen ==
  (pc # "call" /\ has_unknown_character(input)) =>
    (pc = "returned" /\ output = Some("InvalidFen"))

----------------------------------------------------------------------------
(* The directional shifts and the pawn table on their own: a bitboard is   *)
(* drawn at the start and one shift, or one table lookup, is made.         *)

\* the sixteen directions of DirectionalShift
Directions == Range(SLIDING_MOVES) \cup Range(KNIGHT_MOVES)

\* the masks of board.rs: 0x7f.., 0xfe.., all but the low byte, all but the
\* high byte
Board_NOT_FILE_A == EveryByte({0, 1, 2, 3, 4, 5, 6})

Board_NOT_FILE_H == EveryByte({1, 2, 3, 4, 5, 6, 7})

Board_NOT_RANK_1 == Squares \ OneByte(0)

Board_NOT_RANK_8 == Squares \ OneByte(7)

\* the eight free functions of board.rs
Board_north(bb) == Shl(bb \cap Board_NOT_RANK_8, 8)

Board_south(bb) == Shr(bb \cap Board_NOT_RANK_1, 8)

Board_east(bb) == Shl(bb \cap Board_NOT_FILE_H, 1)

Board_west(bb) == Shr(bb \cap Board_NOT_FILE_A, 1)

Board_north_east(bb) == Shl(bb \cap (Board_NOT_RANK_8 \cup Board_NOT_FILE_H), 9)

Board_north_west(bb) == Shl(bb \cap (Board_NOT_RANK_8 \cup Board_NOT_FILE_A), 7)

Board_south_east(bb) == Shr(bb \cap (Board_NOT_RANK_1 \cup Board_NOT_FILE_H), 7)

Board_south_west(bb) == Shr(bb \cap (Board_NOT_RANK_1 \cup Board_NOT_FILE_A), 9)

Board_shift(bb, direction) ==
  CASE direction = "North" -> Board_north(bb)
    [] direction = "South" -> Board_south(bb)
    [] direction = "East" -> Board_east(bb)
    [] direction = "West" -> Board_west(bb)
    [] direction = "NorthEast" -> Board_north_east(bb)
    [] direction = "NorthWest" -> Board_north_west(bb)
    [] direction = "SouthEast" -> Board_south_east(bb)
    [] direction = "SouthWest" -> Board_south_west(bb)

\* the bitboards tried: every single square, the edge files and ranks, the
\* two outer file pairs, the empty and the full board
BitInputs ==
  {{s} : s \in Squares}
    \cup {{s \in Squares : s % 8 \in fs} : fs \in {{0}, {7}, {0, 1}, {6, 7}}}
    \cup {{s \in Squares : s \div 8 = r} : r \in {0, 7}}
    \cup {{}, Squares}

InitBits ==
  /\ input \in BitInputs
  /\ output = None
  /\ pc = "call"
  /\ build = "debug"
  /\ board = Board_DEFAULT
  /\ history = <<>>
  /\ halfmove_clock = 0
  /\ fullmove_number = 1
  /\ fen = 1
  /\ parsed = None
  /\ depth = 0
  /\ frames = <<>>
  /\ result = 0

\* one of the sixteen shifts of DirectionalShift
ShiftCall ==
  /\ pc = "call"
  /\ \E direction \in Directions :
       output' = Some([op |-> direction, of |-> "DirectionalShift",
                       val |-> shift(input, direction)])
  /\ pc' = "returned"
  /\ UNCHANGED <<board, history, halfmove_clock, fullmove_number, fen, depth,
                 frames, result, build, parsed, input>>

\* one of the eight free shift functions of board.rs
BoardShiftCall ==
  /\ pc = "call"
  /\ \E direction \in Range(SLIDING_MOVES) :
       output' = Some([op |-> direction, of |-> "board",
                       val |-> Board_shift(input, direction)])
  /\ pc' = "returned"
  /\ UNCHANGED <<board, history, halfmove_clock, fullmove_number, fen, depth,
                 frames, result, build, parsed, input>>

\* generate_pawn_lookup()[j][i] for the single square 1 << i
LookupCall ==
  /\ pc = "call"
  /\ Cardinality(input) = 1
  /\ \E j \in {0, 1}, i \in input :
       output' = Some([op |-> "lookup", j |-> j,
                       val |-> generate_pawn_lookup[j + 1][i]])
  /\ pc' = "returned"
  /\ UNCHANGED <<board, history, halfmove_clock, fullmove_number, fen, depth,
                 frames, result, build, parsed, input>>

NextBits == ShiftCall \/ BoardShiftCall \/ LookupCall

SpecBits == InitBits /\ [][NextBits]_vars

\* the file and rank offset of a direction
offset(direction) ==
  CASE direction = "North" -> <<0, 1>>
    [] direction = "South" -> <<0, -1>>
    [] direction = "East" -> <<1, 0>>
    [] direction = "West" -> <<-1, 0>>
    [] direction = "NorthEast" -> <<1, 1>>
    [] direction = "NorthWest" -> <<-1, 1>>
    [] direction = "SouthEast" -> <<1, -1>>
    [] direction = "SouthWest" -> <<-1, -1>>
    [] direction = "NoNoEa" -> <<1, 2>>
    [] direction = "NoEaEa" -> <<2, 1>>
    [] direction = "SoEaEa" -> <<2, -1>>
    [] direction = "SoSoEa" -> <<1, -2>>
    [] direction = "NoNoWe" -> <<-1, 2>>
    [] direction = "NoWeWe" -> <<-2, 1>>
    [] direction = "SoWeWe" -> <<-2, -1>>
    [] direction = "SoSoWe" -> <<-1, -2>>

\* the squares at the offset of the direction from a square of x, on the board
stepped(x, direction) ==
  {t \in Squares :
     \E s \in x : /\ t % 8 = (s % 8) + offset(direction)[1]
                  /\ t \div 8 = (s \div 8) + offset(direction)[2]}

\* C24: generate_pawn_lookup()[0][s] (White) equals north_east(s) |
\* north_west(s) and generate_pawn_lookup()[1][s] (Black) equals
\* south_east(s) | south_west(s) for every square s in 0..63, with no bit
\* wrapping between the a-file and the h-file.
C24_PawnLookupByColour ==
  \A s \in input :
    (pc = "returned" /\ output # None /\ unwrap(output).op = "lookup") =>
      unwrap(output).val
        = IF unwrap(output).j = 0
          THEN stepped({s}, "NorthEast") \cup stepped({s}, "NorthWest")
          ELSE stepped({s}, "SouthEast") \cup stepped({s}, "SouthWest")

\* the squares of a file (0 = a .. 7 = h)
on_file(f) == {s \in Squares : s % 8 = f}

\* C25: for every bitboard x no directional shift wraps a bit across the
\* board edge: east, north_east and south_east of x have no bit on file a,
\* west, north_west and south_west of x have no bit on file h, and every
\* bit of each of the sixteen shift results (eight sliding, eight knight)
\* lies at exactly the file and rank offset of that direction from some bit
\* of x.
C25_NoShiftWraps ==
  (pc = "returned" /\ output # None /\ unwrap(output).op \in Directions) =>
    \E direction \in {unwrap(output).op}, shifted \in {unwrap(output).val} :
      /\ direction \in {"East", "NorthEast", "SouthEast"}
           => shifted \cap on_file(0) = {}
      /\ direction \in {"West", "NorthWest", "SouthWest"}
           => shifted \cap on_file(7) = {}
      /\ shifted \subseteq stepped(input, direction)

----------------------------------------------------------------------------
(* perft_parallel: the root moves are cut into consecutive jobs, each job  *)
(* works on its own clone of the game, and the counts are summed.  `input` *)
(* holds the root moves and `frames` one record per job.                   *)

\* let nodes = if game_clone.board.is_check(game_clone.board.turn) { 0 }
\* else { perft(game_clone, depth - 1) }
perft_parallel_nodes(g1, d) ==
  IF ~is_some(g1.board.king_position[ColorField(g1.board.turn)])
  THEN Returned(0, g1, TRUE)
  ELSE IF is_check(g1.board, g1.board.turn)
  THEN Returned(0, g1, FALSE)
  ELSE perft(g1, d - 1)

\* the closure of map_init on one root move: make, test, recurse, unmake
perft_parallel_item(game_clone, d, m) ==
  perft_unmake(perft_parallel_nodes(make_move(game_clone, m), d), m)

\* the positions perft_parallel is counted from (indices into FENS)
ParFens == {3, 8, 9}

ParDepths == {0, 1, 2}

\* the most jobs the root moves are cut into
MaxJobs == 2

\* the ways to cut 1 .. n into MaxJobs consecutive ranges: the last index of
\* each range
Cuts(n) ==
  {c \in [1 .. MaxJobs -> 0 .. n] :
     /\ c[MaxJobs] = n
     /\ \A j \in 1 .. MaxJobs - 1 : c[j] <= c[j + 1]}

InitPar ==
  /\ fen \in ParFens
  /\ depth \in ParDepths
  /\ build = "debug"
  /\ parsed = None
  /\ input = <<>>
  /\ output = None
  /\ \E loaded \in {Game_new(FENS[fen])} :
       /\ loaded.tag = "Ok"
       /\ board = loaded.game.board
  /\ history = <<>>
  /\ halfmove_clock = 0
  /\ fullmove_number = 1
  /\ pc = "perft_parallel"
  /\ frames = <<>>
  /\ result = 0

\* depth == 0: return 1
ParLeaf ==
  /\ pc = "perft_parallel"
  /\ depth = 0
  /\ result' = 1
  /\ pc' = "done"
  /\ UNCHANGED <<board, history, halfmove_clock, fullmove_number, fen, depth,
                 frames, build, parsed, input, output>>

\* gen_moves, and par_iter().map_init(|| game.clone(), ..): the moves are
\* cut into jobs and each job gets a clone
ParEnter ==
  /\ pc = "perft_parallel"
  /\ depth > 0
  /\ \E moves \in {gen_moves(board)} :
       /\ input' = moves
       /\ \E c \in Cuts(Len(moves)) :
            frames' = [j \in 1 .. MaxJobs |->
                         [game_clone |-> game,
                          next |-> IF j = 1 THEN 1 ELSE c[j - 1] + 1,
                          last |-> c[j]]]
  /\ pc' = "map"
  /\ UNCHANGED <<board, history, halfmove_clock, fullmove_number, fen, depth,
                 result, build, parsed, output>>

\* one job runs the closure on its next move; its nodes go into the sum
ParWork ==
  /\ pc = "map"
  /\ \E j \in 1 .. Len(frames) :
       /\ frames[j].next <= frames[j].last
       /\ \E r \in {perft_parallel_item(frames[j].game_clone, depth,
                                        input[frames[j].next])} :
            /\ frames' = [frames EXCEPT ![j].game_clone = r.game,
                                        ![j].next = @ + 1]
            /\ result' = result + r.nodes
            /\ pc' = IF r.panic THEN "panic" ELSE "map"
  /\ UNCHANGED <<board, history, halfmove_clock, fullmove_number, fen, depth,
                 build, parsed, input, output>>

\* every job is through: .sum() is returned
ParExit ==
  /\ pc = "map"
  /\ \A j \in 1 .. Len(frames) : frames[j].next > frames[j].last
  /\ pc' = "done"
  /\ UNCHANGED <<board, history, halfmove_clock, fullmove_number, fen, depth,
                 frames, result, build, parsed, input, output>>

NextPar == ParLeaf \/ ParEnter \/ ParWork \/ ParExit

SpecPar == InitPar /\ [][NextPar]_vars

\* C26: for every position and every depth >= 1, perft_parallel(game, depth)
\* returns the same count as perft(game, depth), whatever the partition of
\* the root moves among worker clones and the order in which the workers
\* finish.
C26_ParallelEqualsSequential ==
  (pc = "done" /\ depth >= 1) => result = perft(game, depth).nodes

----------------------------------------------------------------------------
(* The game after perft, checked over perft (SpecPerft).                   *)

\* C27: perft(game, d) returns with the game equal to its value before the
\* call (bitboards, turn, en_passant, castling, king squares, counters,
\* history) for every depth d, moves that leave the mover's own king attacked
\* included: make_move followed by unmake_move is an exact inverse for every
\* generated pseudo-legal move, not only for the legal ones.
C27_PerftRestoresGame ==
  /\ pc = "done" => game = Game_new(FENS[fen]).game
  /\ pc = "perft" =>
       \A m \in Range(gen_moves(board)) :
         unmake_move(make_move(game, m), m) = game

----------------------------------------------------------------------------
(* The history stack, checked over the walk (Spec); `depth` counts the     *)
(* makes minus the unmakes.                                                *)

----------------------------------------------------------------------------
(* Castling rights along make_move, checked over the walk (Spec).          *)

\* C29: along any sequence of make_move calls with no unmake, castling
\* rights only shrink: a castling bit that is clear before a make is still
\* clear after it, so a king that moved away from and back to its initial
\* square (or any later king move) never regains a castling right or a
\* castling move.
C29_CastlingRightsOnlyShrink ==
  [][depth' = depth + 1 => board'.castling \subseteq board.castling]_vars

----------------------------------------------------------------------------
(* Shape of the generated moves, checked over the walk (Spec).             *)

\* the occupancy invariants: the colour masks are disjoint, the kind boards
\* are pairwise disjoint, and the kinds together are the two colours
occupancy_holds(b) ==
  /\ b.white \cap b.black = {}
  /\ \A i, j \in 1 .. 6 :
       i # j => KindBoards(b)[i] \cap KindBoards(b)[j] = {}
  /\ UNION {KindBoards(b)[i] : i \in 1 .. 6} = b.white \cup b.black

\* the square of the piece a move takes: its destination, or for a pawn
\* that lands on the en-passant target the square behind the target
taken_square(b, m) ==
  IF m.what.kind = "Pawn" /\ is_some(b.en_passant)
       /\ m.to = unwrap(b.en_passant)
       /\ idx(m.from) % 8 # idx(m.to) % 8
  THEN behind(m)
  ELSE m.to

\* the move is well formed on board b
well_formed(b, m) ==
  /\ Cardinality(m.from) = 1
  /\ m.from \subseteq get_color_mask(b, b.turn)
  /\ get_piece(b, m.from) = Some(m.what)
  /\ Cardinality(m.to) = 1
  /\ m.to # m.from
  /\ ~intersects(m.to, get_color_mask(b, b.turn))
  /\ is_some(m.capture) <=>
       intersects(taken_square(b, m), get_color_mask(b, Not(b.turn)))
  /\ is_some(m.capture) =>
       /\ unwrap(m.capture).color = Not(b.turn)
       /\ get_piece(b, taken_square(b, m)) = m.capture

\* C30: every move returned by gen_moves on a board satisfying the occupancy
\* invariants is well formed: from is a single bit occupied by a piece of the
\* side to move and what is that piece, to is a single bit different from
\* from and not occupied by the side to move, capture is present exactly
\* when the move takes an opposite-colour piece (on to, or behind the
\* en-passant target) and never names a piece of the mover's colour, and
\* gen_moves leaves the board unchanged.
C30_MovesWellFormed ==
  (pc = "node" /\ occupancy_holds(board)) =>
    \A m \in Range(gen_moves(board)) : well_formed(board, m)

\* gen_moves has returned an en-passant capture on a board that satisfies
\* the occupancy invariants: the piece taken is not on the destination
C30_Witness ==
  /\ pc = "node"
  /\ occupancy_holds(board)
  /\ \E m \in Range(gen_moves(board)) :
       is_some(m.capture) /\ taken_square(board, m) # m.to

====
